---- MODULE Spec2Model ----
(***************************************************************************)
(* Template-driven batch extraction (document-ocr-app).                    *)
(*                                                                         *)
(* Spec     : one call of OCRProcessor.extractTextFromTemplate, followed   *)
(*            by further calls on the same inputs.  The call is cut at its *)
(*            await points: the recognition of a pair (crop, encode,       *)
(*            Tesseract.recognize) and the 10 ms delay after each pair.    *)
(*                                                                         *)
(* SpecApp  : the wizard of App: upload, conversion, template selection    *)
(*            and import, batch extraction, Back and Start Over.  Every    *)
(*            handler is one action up to its first await; what runs when  *)
(*            a promise settles is part of the action that settles it.     *)
(*            Behaviours are explored up to MaxClicks user actions.        *)
(*                                                                         *)
(* SpecEditor : the ExtractionTemplateEditor while it is mounted: drawing, *)
(*            removing and clearing regions, and saving a template.        *)
(*                                                                         *)
(* SpecTemplateFile : export of a saved template and import of a file.     *)
(*                                                                         *)
(* SpecCSV  : CSVExporter.exportToCSV and exportGroupedByPage on a list of *)
(*            results.                                                     *)
(*                                                                         *)
(* SpecMultipleFiles : one call of extractTextFromMultipleFiles.           *)
(*                                                                         *)
(* SpecBatch : the wizard from the batch preview on: Start Extraction,      *)
(*            Back, Start Over and the choice of a template while calls of *)
(*            extractTextFromTemplate are under way.                       *)
(*                                                                         *)
(* SpecReview : a batch extraction of App and the edits of its results in  *)
(*            ExtractedTextDisplay.                                        *)
(*                                                                         *)
(* Text is a sequence of one-character strings, so that String.trim is an  *)
(* operator that really removes characters; the empty string is << >>.     *)
(* An absent optional string (fieldName?: string) and the empty string are *)
(* both written "": the code only ever tests them with `||`.               *)
(***************************************************************************)
EXTENDS Integers, Sequences, FiniteSets, TLC

\* ---------------------------------------------------------------- bounds
MaxImages == 2
MaxSelections == 2
MaxOperations == 4
MaxPageNumber == 2
MaxFiles == 2
MaxRuns == 2
MaxConversions == 1
MaxSavedTemplates == 1
MaxImports == 1
MaxAppOperations == 3
MaxClicks == 8
MaxClock == 1
MaxEditorSelections == 2
MaxEditorClicks == 10
MaxDownloads == 1
MaxResults == 3

\* the call of extractTextFromTemplate under study (Spec)
VARIABLES run, runNo, prevRun

\* the wizard of App (SpecApp): its React state, and the asynchronous work it
\* has started and not yet seen the end of; lastRun is what was seen of the
\* call of extractTextFromTemplate that settled last, clicks counts the user
\* actions made, conversionAlerts the number of times the alert 'Failed to
\* convert PDF. Please try again.' was shown
VARIABLES app, conversions, conversionAlerts, extractions, imports, lastRun, clicks

\* the template editor (SpecEditor): its React state, the millisecond clock
\* read by Date.now(), the arrays of regions that the editor and the saved
\* templates refer to, and the handler that ran last with its argument
VARIABLES editor, now, arrays, handled

\* template files (SpecTemplateFile): the files written by "Export"
VARIABLES downloads

\* the CSV exporter (SpecCSV): the results handed to it and the file it wrote
VARIABLES csvInput, csvFile

\* the results review (SpecReview): the state of ExtractedTextDisplay, and the
\* row whose edit button was pressed last
VARIABLES review

runVars == <<run, runNo, prevRun>>

appVars == <<app, conversions, conversionAlerts, extractions, imports, lastRun, clicks>>

editorVars == <<editor, now, arrays, handled>>

fileVars == <<downloads>>

csvVars == <<csvInput, csvFile>>

reviewVars == <<review>>

\* what neither the orchestrator nor the wizard touches
otherVars == <<editorVars, fileVars, csvVars, reviewVars>>

vars ==
    <<run, runNo, prevRun,
      app, conversions, conversionAlerts, extractions, imports, lastRun, clicks,
      editor, now, arrays, handled, downloads, csvInput, csvFile, review>>

\* ------------------------------------------------------------- data model
\* PDFPageImage: the fields the orchestrator and the app read
PDFPageImage(pageNumber, fileName, fileIndex) ==
    [pageNumber |-> pageNumber, fileName |-> fileName, fileIndex |-> fileIndex]

\* Omit<SelectionArea, 'pageNumber'>: two regions, one named, one without a name
TagSelection ==
    [id |-> "s1", x |-> 10, y |-> 10, width |-> 100, height |-> 40,
     type |-> "rectangle", fieldName |-> "Tag"]

UnnamedSelection ==
    [id |-> "s2", x |-> 30, y |-> 60, width |-> 50, height |-> 50,
     type |-> "circle", fieldName |-> ""]

TemplateSelections == {TagSelection, UnnamedSelection}

SeqsUpTo(S, n) == UNION { [1..k -> S] : k \in 0..n }

\* { ...templateSelection, pageNumber: image.pageNumber }
SelectionArea(templateSelection, image) ==
    [f \in (DOMAIN templateSelection) \cup {"pageNumber"} |->
        IF f = "pageNumber" THEN image.pageNumber ELSE templateSelection[f]]

\* ----------------------------------------------------------- String.trim
WhiteSpace == {" ", "\t", "\n", "\r"}

RECURSIVE trimStart(_)
trimStart(s) ==
    IF s # <<>> /\ Head(s) \in WhiteSpace THEN trimStart(Tail(s)) ELSE s

RECURSIVE trimEnd(_)
trimEnd(s) ==
    IF s # <<>> /\ s[Len(s)] \in WhiteSpace
    THEN trimEnd(SubSeq(s, 1, Len(s) - 1))
    ELSE s

trim(s) == trimEnd(trimStart(s))

\* ------------------------------------------------- TextRecognizer outcomes
\* What one attempt on a pair (image load, crop, toBlob, Tesseract.recognize)
\* can give back: an error, or a response { data: { text, confidence } } in
\* which text may be absent and confidence may be any number.
Thrown == [throws |-> TRUE, hasText |-> FALSE, text |-> <<>>, confidence |-> 0]

Recognized(text, confidence) ==
    [throws |-> FALSE, hasText |-> TRUE, text |-> text, confidence |-> confidence]

MissingText(confidence) ==
    [throws |-> FALSE, hasText |-> FALSE, text |-> <<>>, confidence |-> confidence]

RecognizerOutcomes ==
    { Thrown,
      Recognized(<<" ", "A", " ">>, 87),
      Recognized(<<"B">>, 150),
      MissingText(87) }

\* the outcomes tried in the wizard: a failure and a well-formed response
AppRecognizerOutcomes == { Thrown, Recognized(<<" ", "A", " ">>, 87) }

\* ----------------------------------------------- extractTextFromSelection
\* selection.fieldName || 'Unknown Field'
FieldNameOrUnknown(selection) ==
    IF selection.fieldName = "" THEN "Unknown Field" ELSE selection.fieldName

\* result.data.text.trim() throws a TypeError when text is absent; the catch
\* of extractTextFromSelection rethrows every error as a new Error
SelectionThrows(outcome) == outcome.throws \/ ~outcome.hasText

\* the object returned by extractTextFromSelection
SelectionResult(selection, outcome) ==
    [id |-> selection.id,
     fieldName |-> FieldNameOrUnknown(selection),
     text |-> trim(outcome.text),
     confidence |-> outcome.confidence,
     selectionArea |-> selection,
     pageNumber |-> selection.pageNumber]

\* ------------------------------------------------ extractTextFromTemplate
\* `${image.pageNumber}-${templateSelection.id}`
TemplateResultId(image, templateSelection) ==
    ToString(image.pageNumber) \o "-" \o templateSelection.id

\* results.push({ ...result, id: ... }) of the try branch
SuccessResult(image, templateSelection, outcome) ==
    [SelectionResult(SelectionArea(templateSelection, image), outcome)
        EXCEPT !.id = TemplateResultId(image, templateSelection)]

\* mutant of FailureResult: the catch branch forgets the 'Unknown Field' default
FailureResultRawName(image, templateSelection) ==
    [id |-> TemplateResultId(image, templateSelection),
     fieldName |-> templateSelection.fieldName,
     text |-> <<>>,
     confidence |-> 0,
     selectionArea |-> SelectionArea(templateSelection, image),
     pageNumber |-> image.pageNumber]

\* results.push({ ... text: '', confidence: 0 ... }) of the catch branch
FailureResult(image, templateSelection) ==
    [id |-> TemplateResultId(image, templateSelection),
     fieldName |-> FieldNameOrUnknown(templateSelection),
     text |-> <<>>,
     confidence |-> 0,
     selectionArea |-> SelectionArea(templateSelection, image),
     pageNumber |-> image.pageNumber]

\* mutant of Push: results.unshift
PushFront(results, result) == <<result>> \o results

\* results.push
Push(results, result) == Append(results, result)

\* mutant of ProgressCall: the counter is reported before it is incremented
ProgressCallStale(currentOperation, totalOperations, image, templateSelection) ==
    [current |-> currentOperation - 1,
     total |-> totalOperations,
     currentPage |-> image.pageNumber,
     currentField |-> IF templateSelection.fieldName = ""
                      THEN "Unknown Field" ELSE templateSelection.fieldName]

\* the arguments of one onProgress call
ProgressCall(currentOperation, totalOperations, image, templateSelection) ==
    [current |-> currentOperation,
     total |-> totalOperations,
     currentPage |-> image.pageNumber,
     currentField |-> FieldNameOrUnknown(templateSelection)]

\* const totalOperations = images.length * template.selections.length
TotalOperations(images, selections) == Len(images) * Len(selections)

\* The state of one call.  pc is the await the call is suspended at:
\*   "recognize" : await this.extractTextFromSelection(image, selection)
\*   "delay"     : await new Promise(resolve => setTimeout(resolve, 10))
\*   "returned"  : the promise of the call is resolved with results
\*   "threw"     : the promise of the call is rejected with error
\* inFlight is the set of operations whose recognition has been started and has
\* not settled.  progressCalls (the arguments of every onProgress call), events
\* (onProgress calls, those of them that threw, recognition starts and
\* settlements, in the order the code makes them) and outcomes (what the recognizer gave back, one per settled
\* recognition) are logs of the call's traffic with its collaborators.
NewRun(images, selections, hasOnProgress) ==
    [images |-> images,
     selections |-> selections,
     hasOnProgress |-> hasOnProgress,
     pc |-> "called",
     error |-> "",
     imageIndex |-> 1,
     selectionIndex |-> 1,
     currentOperation |-> 0,
     totalOperations |-> TotalOperations(images, selections),
     results |-> <<>>,
     progressCalls |-> <<>>,
     inFlight |-> {},
     events |-> <<>>,
     outcomes |-> <<>>]

Event(type, op) == [type |-> type, op |-> op]

\* the two for-of loops still have a pair to visit
HasPair(r) ==
    /\ r.imageIndex <= Len(r.images)
    /\ r.selectionIndex <= Len(r.selections)

\* mutant of CatchBranch: the pair is skipped (`continue`), nothing is pushed
CatchBranchSkips(r) == [r EXCEPT !.pc = "delay"]

\* mutant of CatchBranch: the error is thrown on to the caller
CatchBranchRethrows(r) == [r EXCEPT !.pc = "threw", !.error = "Failed to extract text"]

\* the catch branch of the loop body: log, push the empty result, go on to
\* the delay
CatchBranch(r) ==
    [r EXCEPT !.results = Push(@, FailureResult(r.images[r.imageIndex],
                                                r.selections[r.selectionIndex])),
              !.pc = "delay"]

\* mutant of TryBranch: the page number is assigned to the template's region
\* itself (Object.assign) instead of to a copy
TryBranchAssigning(r, outcome) ==
    [r EXCEPT !.results = Push(@, SuccessResult(r.images[r.imageIndex],
                                                r.selections[r.selectionIndex],
                                                outcome)),
              !.selections[r.selectionIndex] =
                  SelectionArea(@, r.images[r.imageIndex]),
              !.pc = "delay"]

\* the rest of the try branch once extractTextFromSelection has returned
TryBranch(r, outcome) ==
    [r EXCEPT !.results = Push(@, SuccessResult(r.images[r.imageIndex],
                                                r.selections[r.selectionIndex],
                                                outcome)),
              !.pc = "delay"]

\* mutant of AwaitRecognition: the promise is not awaited
NoAwaitRecognition(r) == [r EXCEPT !.pc = "delay"]

\* `await this.extractTextFromSelection(...)`: the call is suspended until the
\* recognition it has just started settles
AwaitRecognition(r) == [r EXCEPT !.pc = "recognize"]

\* mutant of IterationHead: onProgress is called outside the try statement,
\* what it throws rejects the call
IterationHeadUnguarded(r, callbackThrows) ==
    LET op == r.currentOperation + 1
        image == r.images[r.imageIndex]
        templateSelection == r.selections[r.selectionIndex]
        counted == [r EXCEPT !.currentOperation = op]
        reported ==
            IF r.hasOnProgress
            THEN [counted EXCEPT
                    !.progressCalls =
                        Append(@, ProgressCall(op, r.totalOperations, image, templateSelection)),
                    !.events = Append(@, Event("onProgress", op))]
            ELSE counted
    IN  IF r.hasOnProgress /\ callbackThrows
        THEN [reported EXCEPT !.events = Append(@, Event("onProgressThrew", op)),
                              !.pc = "threw",
                              !.error = "onProgress"]
        ELSE AwaitRecognition([reported EXCEPT
                                 !.inFlight = @ \cup {op},
                                 !.events = Append(@, Event("recognize", op))])

\* One loop body up to its first await: currentOperation++, the onProgress
\* call, then either the start of the recognition, or (onProgress threw) the
\* catch branch.
IterationHead(r, callbackThrows) ==
    LET op == r.currentOperation + 1
        image == r.images[r.imageIndex]
        templateSelection == r.selections[r.selectionIndex]
        counted == [r EXCEPT !.currentOperation = op]
        reported ==
            IF r.hasOnProgress
            THEN [counted EXCEPT
                    !.progressCalls =
                        Append(@, ProgressCall(op, r.totalOperations, image, templateSelection)),
                    !.events = Append(@, Event("onProgress", op))]
            ELSE counted
    IN  IF r.hasOnProgress /\ callbackThrows
        THEN CatchBranch([reported EXCEPT
                            !.events = Append(@, Event("onProgressThrew", op))])
        ELSE AwaitRecognition([reported EXCEPT
                                 !.inFlight = @ \cup {op},
                                 !.events = Append(@, Event("recognize", op))])

\* run the loops until the next await, or return results
Continue(r, callbackThrows) ==
    IF HasPair(r) THEN IterationHead(r, callbackThrows) ELSE [r EXCEPT !.pc = "returned"]

\* the recognition of the current pair settles: try branch or catch branch
Settle(r, outcome) ==
    LET settled == [r EXCEPT !.inFlight = @ \ {r.currentOperation},
                             !.events = Append(@, Event("settled", r.currentOperation)),
                             !.outcomes = Append(@, outcome)]
    IN  IF SelectionThrows(outcome)
        THEN CatchBranch(settled)
        ELSE TryBranch(settled, outcome)

\* mutant of Advance: the region after the next one is taken
AdvanceSkipping(r) ==
    IF r.selectionIndex < Len(r.selections)
    THEN [r EXCEPT !.selectionIndex = @ + 2]
    ELSE [r EXCEPT !.imageIndex = @ + 2, !.selectionIndex = 1]

\* the next pair of the nested for-of loops (pages outer, regions inner)
Advance(r) ==
    IF r.selectionIndex < Len(r.selections)
    THEN [r EXCEPT !.selectionIndex = @ + 1]
    ELSE [r EXCEPT !.imageIndex = @ + 1, !.selectionIndex = 1]

\* the delay elapses: the loops go on to the next pair, or the call returns
Resume(r, callbackThrows) == Continue(Advance(r), callbackThrows)

\* --------------------------------------------------------------- the keys
ResultKey(result) ==
    [id |-> result.id, pageNumber |-> result.pageNumber, fieldName |-> result.fieldName]

ResultKeys(results) == [k \in 1..Len(results) |-> ResultKey(results[k])]

\* ==================================================================== App
\* a File the user uploads: its name, the number of pages pdf.js finds in it,
\* and whether pdf.js can open it at all
File(name, numPages, readable) ==
    [name |-> name, numPages |-> numPages, readable |-> readable]

UploadableFiles ==
    { File("a.pdf", 1, TRUE), File("b.pdf", MaxPageNumber, TRUE), File("bad.pdf", 0, FALSE) }

\* PDFProcessor.convertPDFToImages(file, options, fileIndex), when it resolves
ConvertPDFToImages(file, fileIndex) ==
    [pageNum \in 1..file.numPages |-> PDFPageImage(pageNum, file.name, fileIndex)]

\* results.forEach((images) => { allImages.push(...images) })
RECURSIVE PushAll(_, _)
PushAll(allImages, results) ==
    IF results = <<>> THEN allImages
    ELSE PushAll(allImages \o Head(results), Tail(results))

\* ExtractionTemplate: the fields the app and the orchestrator read
ExtractionTemplate(id, name, selections) ==
    [id |-> id, name |-> name, selections |-> selections]

\* what handleSaveTemplate can hand to onTemplateCreate: a name and at least
\* one region, every region with a field name
SavableTemplates == { ExtractionTemplate("t1", "Tags", <<TagSelection>>) }

\* the text of a file given to the import input: it parses as JSON or not
FileText(parses, value) == [parses |-> parses, value |-> value]

ImportableTexts ==
    { FileText(FALSE, ExtractionTemplate("", "", <<>>)),
      FileText(TRUE, ExtractionTemplate("t2", "Empty", <<>>)),
      FileText(TRUE, ExtractionTemplate("t3", "Two", <<TagSelection, UnnamedSelection>>)) }

\* an optional value (T | null, T | undefined) is << >> or << value >>
None == <<>>

Some(value) == <<value>>

\* the useState initial values of App
InitialApp ==
    [currentStep |-> "setup",
     uploadedFiles |-> <<>>,
     allPdfImages |-> <<>>,
     templateImage |-> None,
     selectedTemplate |-> None,
     savedTemplates |-> <<>>,
     extractedData |-> <<>>,
     isProcessing |-> FALSE,
     processingProgress |-> None]

RemoveAt(seq, k) == SubSeq(seq, 1, k - 1) \o SubSeq(seq, k + 1, Len(seq))

\* ------------------------------------------------------ handlePDFConversion
\* one call of handlePDFConversion suspended at `await Promise.all(promises)`:
\* the files it was started with and the indices (0-based) of the per-file
\* conversions that have resolved, in the order they resolved
NewConversion(files) == [files |-> files, resolved |-> <<>>]

Range(seq) == { seq[k] : k \in 1..Len(seq) }

\* mutant of PromiseAllResults: the entries come in the order in which the
\* promises resolved
PromiseAllResultsAsResolved(c) ==
    [k \in 1..Len(c.resolved) |->
        ConvertPDFToImages(c.files[c.resolved[k] + 1], c.resolved[k])]

\* the array Promise.all resolves with: one entry per promise, in the order of
\* the promises
PromiseAllResults(c) ==
    [k \in 1..Len(c.files) |-> ConvertPDFToImages(c.files[k], k - 1)]

\* the try branch after the await, followed by finally
ConversionSucceeded(a, c) ==
    LET allImages == PushAll(<<>>, PromiseAllResults(c))
    IN  [a EXCEPT !.allPdfImages = allImages,
                  !.templateImage = IF allImages = <<>> THEN None ELSE Some(allImages[1]),
                  !.currentStep = "template",
                  !.isProcessing = FALSE]

\* mutant of ConversionFailed: the wizard moves on to the template step
ConversionFailedMovesOn(a) == [a EXCEPT !.isProcessing = FALSE, !.currentStep = "template"]

\* the catch branch (console.error, alert), followed by finally
ConversionFailed(a) == [a EXCEPT !.isProcessing = FALSE]

\* ---------------------------------------------------- handleBatchExtraction
\* the onProgress callback: setProcessingProgress of the latest report
ReportProgress(a, before, after) ==
    IF Len(after.progressCalls) > Len(before.progressCalls)
    THEN [a EXCEPT !.processingProgress =
                      Some(after.progressCalls[Len(after.progressCalls)])]
    ELSE a

\* the try branch after `await extractTextFromTemplate`, followed by finally
ExtractionSucceeded(a, r) ==
    [a EXCEPT !.extractedData = r.results,
              !.currentStep = "results",
              !.isProcessing = FALSE,
              !.processingProgress = None]

\* the catch branch (console.error, alert), followed by finally
ExtractionFailed(a) ==
    [a EXCEPT !.currentStep = "batch-preview",
              !.isProcessing = FALSE,
              !.processingProgress = None]

\* what handleBatchExtraction does once the call r has gone as far as it can
\* without waiting: nothing while r is suspended, else the rest of the handler
AfterExtractionStep(a, before, r) ==
    LET reported == ReportProgress(a, before, r)
    IN  CASE r.pc = "returned" -> ExtractionSucceeded(reported, r)
          [] r.pc = "threw" -> ExtractionFailed(reported)
          [] OTHER -> reported

Suspended(r) == r.pc \in {"recognize", "delay"}

\* what is kept of a call of extractTextFromTemplate that has settled: its
\* arguments, how it ended, the ids of its results and the recognitions it
\* started
Seen(r) ==
    [images |-> r.images,
     selections |-> r.selections,
     pc |-> r.pc,
     error |-> r.error,
     ids |-> [k \in 1..Len(r.results) |-> r.results[k].id],
     recognitions |-> Cardinality({ n \in 1..Len(r.events) : r.events[n].type = "recognize" })]

\* ------------------------------------------------------------------ goBack
PreviousStep(step) ==
    CASE step = "upload" -> "setup"
      [] step = "convert" -> "upload"
      [] step = "template" -> "upload"
      [] step = "batch-preview" -> "template"
      [] step = "extract" -> "batch-preview"
      [] step = "results" -> "batch-preview"
      [] OTHER -> step

\* ========================================================= template editor
\* Math.abs, Math.min
Abs(n) == IF n < 0 THEN -n ELSE n

Min(a, b) == IF a < b THEN a ELSE b

\* the prop dataFields: the fields of the setup step, which cannot be left
\* with no field; here the user kept the first of the three default fields.
\* The "Current Field" select then has one option, and its onChange, the only
\* caller of setSelectedFieldIndex outside handleMouseUp, cannot fire.
dataFields == << [id |-> "1", name |-> "Project Name"] >>

\* getCanvasCoordinates: the position of the mouse on the canvas, already
\* divided by zoom; the values lie on both sides of the threshold of
\* handleMouseUp
CanvasPoints ==
    { [x |-> 0, y |-> 0], [x |-> 10, y |-> 10], [x |-> 21, y |-> 20] }

DrawingTools == {"rectangle", "circle"}

\* what can be typed into the name and description inputs
TypedNames == { <<" ">>, <<" ", "T", " ">> }

TypedDescriptions == { <<" ", "d">> }

\* ---------------------------------------------------------------- arrays
\* An array of regions is an object: the editor state and a template hold a
\* reference to it, and `arrays` maps each reference in use to the content of
\* its array.
NewRef(heap) ==
    CHOOSE ref \in 1..(Cardinality(DOMAIN heap) + 1) :
        /\ ref \notin DOMAIN heap
        /\ \A smaller \in 1..(ref - 1) : smaller \in DOMAIN heap

\* the result of an expression that yields an array: the reference to it and
\* the arrays that exist afterwards
NewArray(heap, content) ==
    LET ref == NewRef(heap)
    IN  [ref |-> ref,
         heap |-> [r \in DOMAIN heap \cup {ref} |->
                      IF r = ref THEN content ELSE heap[r]]]

\* [...prev, newSelection]
SpreadAppend(heap, prev, newSelection) ==
    NewArray(heap, Append(heap[prev], newSelection))

\* prev.filter(s => s.id !== id)
KeepsSelection(s, id) == s.id # id

Filter(heap, prev, id) ==
    NewArray(heap, SelectSeq(heap[prev], LAMBDA s : KeepsSelection(s, id)))

\* the literal [] of setSelections([]): a new array, whatever the state held
EmptyArrayInPlace(heap, prev) ==
    [ref |-> prev, heap |-> [heap EXCEPT ![prev] = <<>>]]

EmptyArray(heap, prev) == NewArray(heap, <<>>)

\* arrays nothing refers to any more are collected
Collect(heap, live) == [r \in DOMAIN heap \cap live |-> heap[r]]

LiveRefs(e, a) ==
    {e.selections} \cup { a.savedTemplates[k].selections : k \in 1..Len(a.savedTemplates) }

\* ------------------------------------------------------------ editor state
\* the useState initial values of ExtractionTemplateEditor; selections is the
\* reference to an empty array
InitialEditor(selections) ==
    [mode |-> "select",
     templateName |-> <<>>,
     templateDescription |-> <<>>,
     selections |-> selections,
     isDrawing |-> FALSE,
     drawingTool |-> "rectangle",
     currentSelection |-> None,
     selectedFieldIndex |-> 0]

\* the handler that ran last: its name, the id it was given (removeSelection),
\* and the positions of the mouse at the mousedown and at the latest mousemove
\* of the latest drag
Handled(name, id, drag) == [name |-> name, id |-> id, drag |-> drag]

Drag(from, to) == [from |-> from, to |-> to]

\* handleMouseDown
MouseDown(e, coords) ==
    IF e.mode # "create" THEN e
    ELSE [e EXCEPT !.isDrawing = TRUE,
                   !.currentSelection =
                       Some([x |-> coords.x, y |-> coords.y, width |-> 0,
                             height |-> 0, type |-> e.drawingTool])]

\* the guard shared by handleMouseMove and handleMouseUp
Drawing(e) == e.isDrawing /\ e.currentSelection # None /\ e.mode = "create"

\* handleMouseMove
MouseMove(e, coords) ==
    IF ~Drawing(e) THEN e
    ELSE LET prev == e.currentSelection[1]
         IN  [e EXCEPT !.currentSelection =
                           Some([prev EXCEPT !.width = coords.x - prev.x,
                                             !.height = coords.y - prev.y])]

\* Date.now().toString()
DateNowString(t) == ToString(t)

\* dataFields[selectedFieldIndex]?.name || `Field ${selections.length + 1}`
FieldNameFor(e, length) ==
    IF e.selectedFieldIndex < Len(dataFields)
          /\ dataFields[e.selectedFieldIndex + 1].name # ""
    THEN dataFields[e.selectedFieldIndex + 1].name
    ELSE "Field " \o ToString(length + 1)

\* the test of handleMouseUp on the drag
LargeEnoughInclusive(current) ==
    Abs(current.width) >= 10 /\ Abs(current.height) >= 10

LargeEnough(current) == Abs(current.width) > 10 /\ Abs(current.height) > 10

\* newSelection of handleMouseUp
NewSelectionRaw(e, length, t) ==
    LET current == e.currentSelection[1]
    IN  [id |-> DateNowString(t),
         x |-> current.x,
         y |-> current.y,
         width |-> current.width,
         height |-> current.height,
         type |-> current.type,
         fieldName |-> FieldNameFor(e, length)]

NewSelection(e, length, t) ==
    LET current == e.currentSelection[1]
    IN  [id |-> DateNowString(t),
         x |-> Min(current.x, current.x + current.width),
         y |-> Min(current.y, current.y + current.height),
         width |-> Abs(current.width),
         height |-> Abs(current.height),
         type |-> current.type,
         fieldName |-> FieldNameFor(e, length)]

\* handleMouseUp on the editor state e and the arrays heap at time t: the
\* editor state and the arrays afterwards
MouseUp(e, heap, t) ==
    IF ~Drawing(e) THEN [editor |-> e, heap |-> heap]
    ELSE LET cleared == [e EXCEPT !.isDrawing = FALSE, !.currentSelection = None]
         IN  IF LargeEnough(e.currentSelection[1])
             THEN LET added == SpreadAppend(heap, e.selections,
                                   NewSelection(e, Len(heap[e.selections]), t))
                  IN  [editor |-> [cleared EXCEPT
                                      !.selections = added.ref,
                                      !.selectedFieldIndex =
                                          IF @ < Len(dataFields) - 1 THEN @ + 1 ELSE @],
                       heap |-> added.heap]
             ELSE [editor |-> cleared, heap |-> heap]

\* removeSelection(id)
RemoveSelectionFrom(e, heap, id) ==
    LET filtered == Filter(heap, e.selections, id)
    IN  [editor |-> [e EXCEPT !.selections = filtered.ref], heap |-> filtered.heap]

\* clearSelections
ClearedSelections(e, heap) ==
    LET empty == EmptyArray(heap, e.selections)
    IN  [editor |-> [e EXCEPT !.selections = empty.ref, !.selectedFieldIndex = 0],
         heap |-> empty.heap]

\* new Date(): a Date object of the given time
DateObject(t) == [kind |-> "Date", time |-> t]

\* the guard of handleSaveTemplate
SaveRefusedUntrimmed(e, heap) == e.templateName = <<>> \/ Len(heap[e.selections]) = 0

SaveRefused(e, heap) == trim(e.templateName) = <<>> \/ Len(heap[e.selections]) = 0

\* the template handleSaveTemplate builds
NewTemplate(e, t) ==
    [id |-> DateNowString(t),
     name |-> trim(e.templateName),
     description |-> IF trim(e.templateDescription) = <<>> THEN None
                     ELSE Some(trim(e.templateDescription)),
     selections |-> e.selections,
     createdAt |-> DateObject(t),
     updatedAt |-> DateObject(t)]

\* handleTemplateCreate(template) of App
TemplateCreated(a, template) ==
    [a EXCEPT !.savedTemplates = Append(@, template),
              !.selectedTemplate = Some(template)]

\* "Reset form" of handleSaveTemplate
FormReset(e, heap) ==
    LET empty == EmptyArray(heap, e.selections)
    IN  [editor |-> [e EXCEPT !.templateName = <<>>,
                              !.templateDescription = <<>>,
                              !.selections = empty.ref,
                              !.selectedFieldIndex = 0,
                              !.mode = "select"],
         heap |-> empty.heap]

\* the wizard at its template step, after a.pdf was uploaded and converted
AppAtTemplateStep ==
    LET files == <<File("a.pdf", 1, TRUE)>>
    IN  ConversionSucceeded([InitialApp EXCEPT !.uploadedFiles = files,
                                               !.currentStep = "convert"],
                            NewConversion(files))

\* the variables of the other specifications, at rest
IdleEditor ==
    /\ editor = InitialEditor(1)
    /\ now = 0
    /\ arrays = [ref \in {1} |-> <<>>]
    /\ handled = Handled("", "", None)

IdleFiles == downloads = <<>>

IdleCSV == csvInput = <<>> /\ csvFile = None

\* useState<string | null>(null), useState('') of ExtractedTextDisplay
InitialReview == [editingId |-> None, editValue |-> <<>>, row |-> 0]

IdleReview == review = InitialReview

OtherInit == IdleEditor /\ IdleFiles /\ IdleCSV /\ IdleReview

\* ---------------------------------------------------------------- actions
\* a failure result as the review screen sees it: empty text, zero confidence
IsEmptyResult(result) == result.text = <<>> /\ result.confidence = 0

EmptyResults(results) == { k \in 1..Len(results) : IsEmptyResult(results[k]) }

\* what is kept of the previous call on the same inputs
NoPreviousRun == [keys |-> <<>>, anyEmpty |-> FALSE]

\* the pages of one document, in any order and with repetitions
OrchestratorPages == { PDFPageImage(p, "a.pdf", 0) : p \in 1..MaxPageNumber }

Init ==
    /\ \E images \in SeqsUpTo(OrchestratorPages, MaxImages),
          selections \in SeqsUpTo(TemplateSelections, MaxSelections),
          hasOnProgress \in BOOLEAN :
          /\ TotalOperations(images, selections) <= MaxOperations
          /\ run = NewRun(images, selections, hasOnProgress)
    /\ runNo = 1
    /\ prevRun = NoPreviousRun
    /\ app = InitialApp
    /\ conversions = <<>>
    /\ conversionAlerts = 0
    /\ extractions = <<>>
    /\ imports = <<>>
    /\ lastRun = None
    /\ clicks = 0
    /\ OtherInit

\* extractTextFromTemplate(images, template, onProgress) is called
CallExtract ==
    /\ run.pc = "called"
    /\ \E callbackThrows \in BOOLEAN : run' = Continue(run, callbackThrows)
    /\ UNCHANGED <<runNo, prevRun>>
    /\ UNCHANGED <<appVars, otherVars>>

\* the recognition of the current pair succeeds or fails
RecognitionSettles ==
    /\ run.pc = "recognize"
    /\ \E outcome \in RecognizerOutcomes : run' = Settle(run, outcome)
    /\ UNCHANGED <<runNo, prevRun>>
    /\ UNCHANGED <<appVars, otherVars>>

\* the setTimeout of the inter-call delay fires
DelayElapses ==
    /\ run.pc = "delay"
    /\ \E callbackThrows \in BOOLEAN : run' = Resume(run, callbackThrows)
    /\ UNCHANGED <<runNo, prevRun>>
    /\ UNCHANGED <<appVars, otherVars>>

\* the caller runs the same pages and the same template again
CallAgain ==
    /\ run.pc = "returned"
    /\ runNo < MaxRuns
    /\ prevRun' = [keys |-> ResultKeys(run.results),
                   anyEmpty |-> EmptyResults(run.results) # {}]
    /\ runNo' = runNo + 1
    /\ run' = NewRun(run.images, run.selections, run.hasOnProgress)
    /\ UNCHANGED <<appVars, otherVars>>

Next == CallExtract \/ RecognitionSettles \/ DelayElapses \/ CallAgain

Spec == Init /\ [][Next]_vars

\* Every recognition the call has started settles (Tesseract.recognize
\* resolves or rejects), and every timer the call has set fires: the two
\* awaits of the loop body do not wait for ever.
Fairness == WF_vars(RecognitionSettles) /\ WF_vars(DelayElapses)

SpecFair == Spec /\ Fairness

\* ------------------------------------------------------------- App actions
AppInit ==
    /\ app = InitialApp
    /\ conversions = <<>>
    /\ conversionAlerts = 0
    /\ extractions = <<>>
    /\ imports = <<>>
    /\ lastRun = None
    /\ clicks = 0
    /\ run = NewRun(<<>>, <<>>, FALSE)
    /\ runNo = 1
    /\ prevRun = NoPreviousRun
    /\ OtherInit

\* DataExtractionSetup onNext
SetupNext ==
    /\ clicks < MaxClicks
    /\ clicks' = clicks + 1
    /\ app.currentStep = "setup"
    /\ app' = [app EXCEPT !.currentStep = "upload"]
    /\ UNCHANGED <<conversions, conversionAlerts, extractions, imports, lastRun>>
    /\ UNCHANGED <<runVars, otherVars>>

\* handleFileUpload(files), called by PDFUpload with its new list of files
HandleFileUpload ==
    /\ clicks < MaxClicks
    /\ clicks' = clicks + 1
    /\ app.currentStep = "upload"
    /\ \E files \in SeqsUpTo(UploadableFiles, MaxFiles) :
          app' = [app EXCEPT !.uploadedFiles = files]
    /\ UNCHANGED <<conversions, conversionAlerts, extractions, imports, lastRun>>
    /\ UNCHANGED <<runVars, otherVars>>

\* PDFUpload onNext; its button is disabled while no file is listed
UploadNext ==
    /\ clicks < MaxClicks
    /\ clicks' = clicks + 1
    /\ app.currentStep = "upload"
    /\ Len(app.uploadedFiles) > 0
    /\ app' = [app EXCEPT !.currentStep = "convert"]
    /\ UNCHANGED <<conversions, conversionAlerts, extractions, imports, lastRun>>
    /\ UNCHANGED <<runVars, otherVars>>

\* handlePDFConversion up to `await Promise.all(promises)`; both buttons that
\* call it are disabled or hidden while isProcessing
HandlePDFConversion ==
    /\ clicks < MaxClicks
    /\ clicks' = clicks + 1
    /\ app.currentStep = "convert"
    /\ ~app.isProcessing
    /\ Len(conversions) < MaxConversions
    /\ IF Len(app.uploadedFiles) = 0
       THEN UNCHANGED <<app, conversions>>
       ELSE /\ app' = [app EXCEPT !.isProcessing = TRUE]
            /\ conversions' = Append(conversions, NewConversion(app.uploadedFiles))
    /\ UNCHANGED <<conversionAlerts, extractions, imports, lastRun, runVars, otherVars>>

\* convertPDFToImages resolves for one file of a conversion; when it is the
\* last one, Promise.all resolves and handlePDFConversion runs to its end
FileConverted ==
    \E n \in 1..Len(conversions) :
       LET c == conversions[n] IN
       \E k \in 1..Len(c.files) :
          /\ (k - 1) \notin Range(c.resolved)
          /\ c.files[k].readable
          /\ LET d == [c EXCEPT !.resolved = Append(@, k - 1)]
             IN  IF Len(d.resolved) = Len(d.files)
                 THEN /\ app' = ConversionSucceeded(app, d)
                      /\ conversions' = RemoveAt(conversions, n)
                 ELSE /\ conversions' = [conversions EXCEPT ![n] = d]
                      /\ UNCHANGED app
          /\ UNCHANGED <<conversionAlerts, extractions, imports, lastRun, clicks>>
          /\ UNCHANGED <<runVars, otherVars>>

\* convertPDFToImages rejects for one file: Promise.all rejects at once and
\* handlePDFConversion runs its catch and finally; what the other conversions
\* of the call do afterwards is not looked at
FileConversionFails ==
    \E n \in 1..Len(conversions) :
       LET c == conversions[n] IN
       \E k \in 1..Len(c.files) :
          /\ (k - 1) \notin Range(c.resolved)
          /\ ~c.files[k].readable
          /\ app' = ConversionFailed(app)
          /\ conversionAlerts' = conversionAlerts + 1
          /\ conversions' = RemoveAt(conversions, n)
          /\ UNCHANGED <<extractions, imports, lastRun, clicks, runVars, otherVars>>

\* handleTemplateCreate(template), called by the editor's handleSaveTemplate
HandleTemplateCreate ==
    /\ clicks < MaxClicks
    /\ clicks' = clicks + 1
    /\ app.currentStep = "template"
    /\ Len(app.savedTemplates) < MaxSavedTemplates
    /\ \E template \in SavableTemplates :
          app' = [app EXCEPT !.savedTemplates = Append(@, template),
                             !.selectedTemplate = Some(template)]
    /\ UNCHANGED <<conversions, conversionAlerts, extractions, imports, lastRun>>
    /\ UNCHANGED <<runVars, otherVars>>

\* handleTemplateSelect(template)
TemplateSelected(a, template) ==
    [a EXCEPT !.selectedTemplate = Some(template),
              !.currentStep = "batch-preview"]

\* "Use Template" on one of the saved templates
HandleTemplateSelect ==
    /\ clicks < MaxClicks
    /\ clicks' = clicks + 1
    /\ app.currentStep = "template"
    /\ \E k \in 1..Len(app.savedTemplates) :
          app' = TemplateSelected(app, app.savedTemplates[k])
    /\ UNCHANGED <<conversions, conversionAlerts, extractions, imports, lastRun>>
    /\ UNCHANGED <<runVars, otherVars>>

\* handleImportTemplate: reader.readAsText(file) is started
HandleImportTemplate ==
    /\ clicks < MaxClicks
    /\ clicks' = clicks + 1
    /\ app.currentStep = "template"
    /\ Len(imports) < MaxImports
    /\ \E text \in ImportableTexts : imports' = Append(imports, text)
    /\ UNCHANGED <<app, conversions, conversionAlerts, extractions, lastRun, runVars, otherVars>>

\* reader.onload: JSON.parse, then onTemplateSelect(template), or the alert
ImportLoaded ==
    /\ \E k \in 1..Len(imports) :
          /\ imports' = RemoveAt(imports, k)
          /\ IF imports[k].parses
             THEN app' = TemplateSelected(app, imports[k].value)
             ELSE UNCHANGED app
    /\ UNCHANGED <<conversions, conversionAlerts, extractions, lastRun, clicks, runVars, otherVars>>

\* handleBatchExtraction(selectedTemplate, allImages) from Start Extraction, up
\* to the first await of extractTextFromTemplate (or to its own end when the
\* call has no pair to visit)
HandleBatchExtraction ==
    /\ clicks < MaxClicks
    /\ clicks' = clicks + 1
    /\ app.currentStep = "batch-preview"
    /\ app.selectedTemplate # None
    /\ Len(extractions) < MaxRuns
    /\ LET template == app.selectedTemplate[1]
           images == app.allPdfImages
           called == NewRun(images, template.selections, TRUE)
           r == Continue(called, FALSE)
           started == [app EXCEPT !.isProcessing = TRUE, !.currentStep = "extract"]
       IN  /\ TotalOperations(images, template.selections) <= MaxAppOperations
           /\ app' = AfterExtractionStep(started, called, r)
           /\ IF Suspended(r)
              THEN extractions' = Append(extractions, r) /\ UNCHANGED lastRun
              ELSE lastRun' = Some(Seen(r)) /\ UNCHANGED extractions
    /\ UNCHANGED <<conversions, conversionAlerts, imports, runVars, otherVars>>

\* the recognition a call is waiting for settles
ExtractionRecognitionSettles ==
    /\ \E n \in 1..Len(extractions), outcome \in AppRecognizerOutcomes :
          /\ extractions[n].pc = "recognize"
          /\ extractions' = [extractions EXCEPT ![n] = Settle(@, outcome)]
    /\ UNCHANGED <<app, conversions, conversionAlerts, imports, lastRun, clicks>>
    /\ UNCHANGED <<runVars, otherVars>>

\* the delay a call is waiting for elapses: the next pair is begun, or the
\* call returns and handleBatchExtraction runs to its end
ExtractionDelayElapses ==
    /\ \E n \in 1..Len(extractions) :
          /\ extractions[n].pc = "delay"
          /\ LET r == Resume(extractions[n], FALSE)
             IN  /\ app' = AfterExtractionStep(app, extractions[n], r)
                 /\ IF Suspended(r)
                    THEN extractions' = [extractions EXCEPT ![n] = r] /\ UNCHANGED lastRun
                    ELSE extractions' = RemoveAt(extractions, n) /\ lastRun' = Some(Seen(r))
    /\ UNCHANGED <<conversions, conversionAlerts, imports, clicks, runVars, otherVars>>

\* goBack (the header's Back button, shown on every step but setup; Back to
\* Template of the batch preview does the same from there)
GoBack ==
    /\ clicks < MaxClicks
    /\ clicks' = clicks + 1
    /\ app.currentStep # "setup"
    /\ app' = [app EXCEPT !.currentStep = PreviousStep(@)]
    /\ UNCHANGED <<conversions, conversionAlerts, extractions, imports, lastRun>>
    /\ UNCHANGED <<runVars, otherVars>>

\* resetApp (Start Over, shown on every step but setup)
ResetApp ==
    /\ clicks < MaxClicks
    /\ clicks' = clicks + 1
    /\ app.currentStep # "setup"
    /\ app' = InitialApp
    /\ UNCHANGED <<conversions, conversionAlerts, extractions, imports, lastRun>>
    /\ UNCHANGED <<runVars, otherVars>>

AppNext ==
    \/ SetupNext
    \/ HandleFileUpload
    \/ UploadNext
    \/ HandlePDFConversion
    \/ FileConverted
    \/ FileConversionFails
    \/ HandleTemplateCreate
    \/ HandleTemplateSelect
    \/ HandleImportTemplate
    \/ ImportLoaded
    \/ HandleBatchExtraction
    \/ ExtractionRecognitionSettles
    \/ ExtractionDelayElapses
    \/ GoBack
    \/ ResetApp

SpecApp == AppInit /\ [][AppNext]_vars

\* ---------------------------------------------------------- editor actions
\* The editor is mounted at the template step of the wizard.  Behaviours are
\* explored up to MaxEditorClicks events; the clock advances between events.
EditorInit ==
    /\ app = AppAtTemplateStep
    /\ editor = InitialEditor(1)
    /\ now = 0
    /\ arrays = [ref \in {1} |-> <<>>]
    /\ handled = Handled("", "", None)
    /\ clicks = 0
    /\ conversions = <<>>
    /\ conversionAlerts = 0
    /\ extractions = <<>>
    /\ imports = <<>>
    /\ lastRun = None
    /\ run = NewRun(<<>>, <<>>, FALSE)
    /\ runNo = 1
    /\ prevRun = NoPreviousRun
    /\ IdleFiles
    /\ IdleCSV
    /\ IdleReview

\* what no event of the editor touches
editorFrame ==
    <<conversions, conversionAlerts, extractions, imports, lastRun, runVars,
      fileVars, csvVars, reviewVars>>

\* one more event is handled
EditorEvent == clicks < MaxEditorClicks /\ clicks' = clicks + 1

\* the millisecond clock advances
Tick ==
    /\ now < MaxClock
    /\ now' = now + 1
    /\ UNCHANGED <<app, editor, arrays, handled, clicks, editorFrame>>

\* setMode('select'), setMode('create'); the latter button needs templateImage
SetMode ==
    /\ EditorEvent
    /\ \E mode \in {"select", "create"} :
          /\ mode = "create" => app.templateImage # None
          /\ editor' = [editor EXCEPT !.mode = mode]
    /\ handled' = Handled("setMode", "", handled.drag)
    /\ UNCHANGED <<app, now, arrays, editorFrame>>

\* the name and description inputs, shown in create mode
SetTemplateName ==
    /\ EditorEvent
    /\ editor.mode = "create"
    /\ \E name \in TypedNames : editor' = [editor EXCEPT !.templateName = name]
    /\ handled' = Handled("setTemplateName", "", handled.drag)
    /\ UNCHANGED <<app, now, arrays, editorFrame>>

SetTemplateDescription ==
    /\ EditorEvent
    /\ editor.mode = "create"
    /\ \E description \in TypedDescriptions :
          editor' = [editor EXCEPT !.templateDescription = description]
    /\ handled' = Handled("setTemplateDescription", "", handled.drag)
    /\ UNCHANGED <<app, now, arrays, editorFrame>>

\* setDrawingTool
SetDrawingTool ==
    /\ EditorEvent
    /\ editor.mode = "create"
    /\ \E tool \in DrawingTools : editor' = [editor EXCEPT !.drawingTool = tool]
    /\ handled' = Handled("setDrawingTool", "", handled.drag)
    /\ UNCHANGED <<app, now, arrays, editorFrame>>

\* onMouseDown of the canvas; the canvas, the list of regions with its remove
\* buttons, and the Clear and Save buttons are rendered in create mode
HandleMouseDown ==
    /\ EditorEvent
    /\ editor.mode = "create"
    /\ Len(arrays[editor.selections]) < MaxEditorSelections
    /\ \E coords \in CanvasPoints :
          /\ editor' = MouseDown(editor, coords)
          /\ handled' = Handled("handleMouseDown", "",
                                IF editor.mode = "create"
                                THEN Some(Drag(coords, coords)) ELSE handled.drag)
    /\ UNCHANGED <<app, now, arrays, editorFrame>>

\* onMouseMove of the canvas
HandleMouseMove ==
    /\ EditorEvent
    /\ editor.mode = "create"
    /\ \E coords \in CanvasPoints :
          /\ editor' = MouseMove(editor, coords)
          /\ handled' = Handled("handleMouseMove", "",
                                IF Drawing(editor)
                                THEN Some(Drag(handled.drag[1].from, coords))
                                ELSE handled.drag)
    /\ UNCHANGED <<app, now, arrays, editorFrame>>

\* onMouseUp and onMouseLeave of the canvas
HandleMouseUp ==
    /\ EditorEvent
    /\ editor.mode = "create"
    /\ LET after == MouseUp(editor, arrays, now)
       IN  /\ editor' = after.editor
           /\ arrays' = Collect(after.heap, LiveRefs(after.editor, app))
    /\ handled' = Handled("handleMouseUp", "", handled.drag)
    /\ UNCHANGED <<app, now, editorFrame>>

\* removeSelection(id), for the id of a region of the list or any other id
RemoveSelection ==
    /\ EditorEvent
    /\ editor.mode = "create"
    /\ \E t \in 0..MaxClock :
          LET after == RemoveSelectionFrom(editor, arrays, DateNowString(t))
          IN  /\ editor' = after.editor
              /\ arrays' = Collect(after.heap, LiveRefs(after.editor, app))
              /\ handled' = Handled("removeSelection", DateNowString(t), handled.drag)
    /\ UNCHANGED <<app, now, editorFrame>>

\* clearSelections
ClearSelections ==
    /\ EditorEvent
    /\ editor.mode = "create"
    /\ LET after == ClearedSelections(editor, arrays)
       IN  /\ editor' = after.editor
           /\ arrays' = Collect(after.heap, LiveRefs(after.editor, app))
    /\ handled' = Handled("clearSelections", "", handled.drag)
    /\ UNCHANGED <<app, now, editorFrame>>

\* handleSaveTemplate, with handleTemplateCreate of App as onTemplateCreate
HandleSaveTemplate ==
    /\ EditorEvent
    /\ editor.mode = "create"
    /\ Len(app.savedTemplates) < MaxSavedTemplates
    /\ IF SaveRefused(editor, arrays)
       THEN UNCHANGED <<app, editor, arrays>>
       ELSE LET created == TemplateCreated(app, NewTemplate(editor, now))
                after == FormReset(editor, arrays)
            IN  /\ app' = created
                /\ editor' = after.editor
                /\ arrays' = Collect(after.heap, LiveRefs(after.editor, created))
    /\ handled' = Handled("handleSaveTemplate", "", handled.drag)
    /\ UNCHANGED <<now, editorFrame>>

EditorNext ==
    \/ Tick
    \/ SetMode
    \/ SetTemplateName
    \/ SetTemplateDescription
    \/ SetDrawingTool
    \/ HandleMouseDown
    \/ HandleMouseMove
    \/ HandleMouseUp
    \/ RemoveSelection
    \/ ClearSelections
    \/ HandleSaveTemplate

SpecEditor == EditorInit /\ [][EditorNext]_vars

\* ----------------------------------------------------------- template files
\* Export and import of templates at the template step.  In this specification
\* a template holds its regions themselves: JSON.stringify reads them through
\* the reference.

\* the region handleMouseUp stores for a drag from `from` to `to` at time t,
\* next to `length` regions already there
DrawnSelection(from, to, tool, length, t) ==
    LET create == [InitialEditor(<<>>) EXCEPT !.mode = "create", !.drawingTool = tool]
    IN  NewSelection(MouseMove(MouseDown(create, from), to), length, t)

DrawnLists ==
    LET first == DrawnSelection([x |-> 0, y |-> 0], [x |-> 21, y |-> 20], "rectangle", 0, 0)
        second == DrawnSelection([x |-> 21, y |-> 20], [x |-> 0, y |-> 0], "circle", 1, 1)
    IN  { <<first>>, <<first, second>> }

\* the templates handleSaveTemplate hands to onTemplateCreate
SavedByEditor ==
    { NewTemplate([InitialEditor(selections) EXCEPT !.templateName = name,
                                                    !.templateDescription = description],
                  t) :
        name \in { typed \in TypedNames : trim(typed) # <<>> },
        description \in TypedDescriptions \cup {<<>>},
        selections \in DrawnLists,
        t \in 1..MaxClock }

\* Date.prototype.toJSON: the ISO string of the time
ToISOString(t) == "1970-01-01T00:00:00.00" \o ToString(t) \o "Z"

\* a string where a Date is expected
StringValue(text) == [kind |-> "string", value |-> text]

\* JSON.stringify(template, null, 2): strings, numbers and arrays are written
\* as they are, a Date as the string its toJSON returns, and a property that
\* is undefined is left out; the value of the text is what JSON.parse returns
JSONStringify(template) ==
    FileText(TRUE, [template EXCEPT !.createdAt = StringValue(ToISOString(@.time)),
                                    !.updatedAt = StringValue(ToISOString(@.time))])

\* files written by hand: not JSON, a template without the list of regions,
\* and a template with a region smaller than the editor accepts
HandWrittenTexts ==
    { FileText(FALSE, None),
      FileText(TRUE, [id |-> "t4", name |-> <<"N">>]),
      FileText(TRUE, [id |-> "t5", name |-> <<"S">>, description |-> None,
                      selections |-> <<[id |-> "s5", x |-> 0, y |-> 0, width |-> 5,
                                        height |-> 40, type |-> "rectangle",
                                        fieldName |-> "Field 1"]>>,
                      createdAt |-> StringValue(ToISOString(1)),
                      updatedAt |-> StringValue(ToISOString(1))]) }

\* the wizard at the template step after a template was saved
TemplateFileInit ==
    /\ \E template \in SavedByEditor :
          app = TemplateCreated(AppAtTemplateStep, template)
    /\ downloads = <<>>
    /\ imports = <<>>
    /\ clicks = 0
    /\ conversions = <<>>
    /\ conversionAlerts = 0
    /\ extractions = <<>>
    /\ lastRun = None
    /\ run = NewRun(<<>>, <<>>, FALSE)
    /\ runNo = 1
    /\ prevRun = NoPreviousRun
    /\ IdleEditor
    /\ IdleCSV
    /\ IdleReview

\* handleExportTemplate(template): the download of the JSON text
HandleExportTemplate ==
    /\ clicks < MaxClicks
    /\ clicks' = clicks + 1
    /\ app.currentStep = "template"
    /\ Len(downloads) < MaxDownloads
    /\ \E k \in 1..Len(app.savedTemplates) :
          downloads' = Append(downloads, JSONStringify(app.savedTemplates[k]))
    /\ UNCHANGED <<app, conversions, conversionAlerts, extractions, imports, lastRun, runVars,
                   editorVars, csvVars, reviewVars>>

\* handleImportTemplate on a downloaded or a hand-written file:
\* reader.readAsText(file) is started
ImportTemplateFile ==
    /\ clicks < MaxClicks
    /\ clicks' = clicks + 1
    /\ app.currentStep = "template"
    /\ Len(imports) < MaxImports
    /\ \E text \in Range(downloads) \cup HandWrittenTexts :
          imports' = Append(imports, text)
    /\ UNCHANGED <<app, conversions, conversionAlerts, extractions, lastRun, runVars, otherVars>>

TemplateFileNext ==
    \/ HandleExportTemplate
    \/ ImportTemplateFile
    \/ ImportLoaded
    \/ HandleTemplateSelect
    \/ GoBack

SpecTemplateFile == TemplateFileInit /\ [][TemplateFileNext]_vars

\* ============================================================= CSVExporter
\* In this part a string is a sequence of pieces: a piece is one character,
\* or a run of characters none of which is a comma, a double quote, a line
\* feed or a carriage return.  A number that may have a fractional part is
\* counted in quarters: 349 stands for 87.25.

\* an ExtractedText as the exporter reads it
CSVResult(fieldName, text, confidence, pageNumber, x, y, width, height, type) ==
    [fieldName |-> fieldName,
     text |-> text,
     confidence |-> confidence,
     pageNumber |-> pageNumber,
     selectionArea |-> [x |-> x, y |-> y, width |-> width, height |-> height,
                        type |-> type]]

\* results of every page: a plain one, one whose name and text need quoting,
\* and a failure result
CSVResults ==
    UNION { { CSVResult(<<"Tag">>, <<"A", "\r", "B">>, 349, page, 41, 42, 403, 160, "rectangle"),
              CSVResult(<<"a", ",", "b">>, <<"x", "\"", "y", "\n", "z">>, 350, page,
                        0, 3, 45, 46, "circle"),
              CSVResult(<<"Unknown Field">>, <<>>, 0, page, 40, 40, 400, 160, "rectangle") } :
            page \in 1..MaxPageNumber }

\* Math.round on a number of quarters: the nearest integer, a half going up
MathFloor(quarters) == quarters \div 4

MathRound(quarters) == (quarters + 2) \div 4

\* Number.prototype.toString on an integer
NumberToString(n) == <<ToString(n)>>

\* value.replace(/"/g, '""')
RECURSIVE DoubleQuotes(_)
KeepQuotes(value) == value

DoubleQuotes(value) ==
    IF value = <<>> THEN <<>>
    ELSE (IF Head(value) = "\"" THEN <<"\"", "\"">> ELSE <<Head(value)>>)
            \o DoubleQuotes(Tail(value))

\* value.includes(character)
Includes(value, character) == \E k \in 1..Len(value) : value[k] = character

escapeCSVValue(value) ==
    IF value = <<>> THEN <<"\"", "\"">>
    ELSE IF Includes(value, ",") \/ Includes(value, "\"")
               \/ Includes(value, "\n") \/ Includes(value, "\r")
         THEN <<"\"">> \o DoubleQuotes(value) \o <<"\"">>
         ELSE value

\* array.join(separator) on an array of strings
RECURSIVE Join(_, _)
Join(array, separator) ==
    IF array = <<>> THEN <<>>
    ELSE IF Len(array) = 1 THEN array[1]
         ELSE array[1] \o <<separator>> \o Join(Tail(array), separator)

\* [headers, ...rows].map(row => row.join(',')).join('\n')
CSVContent(headers, rows) ==
    LET all == <<headers>> \o rows
    IN  Join([k \in 1..Len(all) |-> Join(all[k], ",")], "\n")

\* what downloadCSV was given, with the rows it was joined from
CSVFile(export, headers, rows) ==
    [export |-> export,
     rows |-> <<headers>> \o rows,
     content |-> CSVContent(headers, rows)]

\* ------------------------------------------------------------- exportToCSV
FullHeaders ==
    << <<"Field Name">>, <<"Extracted Text">>, <<"Page Number">>,
       <<"Confidence Score (%)">>, <<"Position X">>, <<"Position Y">>,
       <<"Width">>, <<"Height">>, <<"Selection Type">> >>

FullRow(item) ==
    << escapeCSVValue(item.fieldName),
       escapeCSVValue(item.text),
       NumberToString(item.pageNumber),
       NumberToString(MathRound(item.confidence)),
       NumberToString(MathRound(item.selectionArea.x)),
       NumberToString(MathRound(item.selectionArea.y)),
       NumberToString(MathRound(item.selectionArea.width)),
       NumberToString(MathRound(item.selectionArea.height)),
       <<item.selectionArea.type>> >>

FullExport(extractedData) ==
    CSVFile("exportToCSV", FullHeaders,
            [k \in 1..Len(extractedData) |-> FullRow(extractedData[k])])

\* ----------------------------------------------------- exportGroupedByPage
\* the reduce: one array per page number, filled in input order
GroupByPage(extractedData) ==
    [page \in { extractedData[k].pageNumber : k \in 1..Len(extractedData) } |->
        SelectSeq(extractedData, LAMBDA item : item.pageNumber = page)]

\* Object.keys of an object whose keys are array indices: ascending
RECURSIVE Ascending(_)
Ascending(numbers) ==
    IF numbers = {} THEN <<>>
    ELSE LET least == CHOOSE n \in numbers : \A other \in numbers : n <= other
         IN  <<least>> \o Ascending(numbers \ {least})

ObjectKeys(groupedData) == Ascending(DOMAIN groupedData)

\* keys.sort((a, b) => parseInt(a) - parseInt(b))
RECURSIVE InsertSorted(_, _)
InsertSorted(sorted, key) ==
    IF sorted = <<>> THEN <<key>>
    ELSE IF key < Head(sorted) THEN <<key>> \o sorted
         ELSE <<Head(sorted)>> \o InsertSorted(Tail(sorted), key)

RECURSIVE SortByParseInt(_)
SortByParseInt(keys) ==
    IF keys = <<>> THEN <<>>
    ELSE InsertSorted(SortByParseInt(SubSeq(keys, 1, Len(keys) - 1)), keys[Len(keys)])

GroupedHeaders ==
    << <<"Page">>, <<"Field Name">>, <<"Extracted Text">>, <<"Confidence (%)">> >>

\* `Page ${pageNum}`
PageLabel(pageNum) == <<"Page " \o ToString(pageNum)>>

\* the row pushed for the item at `index` (0-based) of a page
GroupedRow(item, index, pageNum) ==
    << IF index = 0 THEN PageLabel(pageNum) ELSE <<>>,
       escapeCSVValue(item.fieldName),
       escapeCSVValue(item.text),
       NumberToString(MathRound(item.confidence)) >>

\* pageNum !== Object.keys(groupedData).slice(-1)[0]
SeparatesEveryPage(pageNum, groupedData) == TRUE

SeparatesPages(pageNum, groupedData) ==
    pageNum # ObjectKeys(groupedData)[Len(ObjectKeys(groupedData))]

\* the rows pushed by the forEach over the sorted keys
RECURSIVE GroupedRows(_, _)
GroupedRows(keys, groupedData) ==
    IF keys = <<>> THEN <<>>
    ELSE LET pageNum == Head(keys)
             pageData == groupedData[pageNum]
         IN  [k \in 1..Len(pageData) |-> GroupedRow(pageData[k], k - 1, pageNum)]
                \o (IF SeparatesPages(pageNum, groupedData)
                    THEN << << <<>>, <<>>, <<>>, <<>> >> >> ELSE <<>>)
                \o GroupedRows(Tail(keys), groupedData)

GroupedExport(extractedData) ==
    LET groupedData == GroupByPage(extractedData)
    IN  CSVFile("exportGroupedByPage", GroupedHeaders,
                GroupedRows(SortByParseInt(ObjectKeys(groupedData)), groupedData))

\* -------------------------------------------------------------- CSV actions
\* the results on the review screen
CSVInit ==
    /\ csvInput \in SeqsUpTo(CSVResults, MaxResults)
    /\ csvFile = None
    /\ app = InitialApp
    /\ conversions = <<>>
    /\ conversionAlerts = 0
    /\ extractions = <<>>
    /\ imports = <<>>
    /\ lastRun = None
    /\ clicks = 0
    /\ run = NewRun(<<>>, <<>>, FALSE)
    /\ runNo = 1
    /\ prevRun = NoPreviousRun
    /\ IdleEditor
    /\ IdleFiles
    /\ IdleReview

\* CSVExporter.exportToCSV(extractedData): nothing is written for no results
ExportToCSV ==
    /\ csvFile' = IF Len(csvInput) = 0 THEN csvFile ELSE Some(FullExport(csvInput))
    /\ UNCHANGED <<csvInput, runVars, appVars, editorVars, fileVars, reviewVars>>

\* CSVExporter.exportGroupedByPage(extractedData)
ExportGroupedByPage ==
    /\ csvFile' = IF Len(csvInput) = 0 THEN csvFile ELSE Some(GroupedExport(csvInput))
    /\ UNCHANGED <<csvInput, runVars, appVars, editorVars, fileVars, reviewVars>>

CSVNext == ExportToCSV \/ ExportGroupedByPage

SpecCSV == CSVInit /\ [][CSVNext]_vars

\* ============================================ extractTextFromMultipleFiles
\* One call of OCRProcessor.extractTextFromMultipleFiles, held in `run` and cut
\* at the same await points as extractTextFromTemplate.

\* `${fileName}-${image.pageNumber}-${templateSelection.id}`
FileResultId(fileName, image, templateSelection) ==
    fileName \o "-" \o ToString(image.pageNumber) \o "-" \o templateSelection.id

\* images.reduce((total, file) => total + file.pageNumber, 0)
RECURSIVE SumOfPageNumbers(_)
SumOfPageNumbers(images) ==
    IF images = <<>> THEN 0
    ELSE SumOfPageNumbers(SubSeq(images, 1, Len(images) - 1))
            + images[Len(images)].pageNumber

\* the arguments of one onProgress call
FileProgressCall(fileIndex, fileImages, image, templateSelection) ==
    [currentFile |-> fileIndex + 1,
     totalFiles |-> Len(fileImages),
     currentPage |-> image.pageNumber,
     totalPages |-> SumOfPageNumbers(fileImages[fileIndex + 1].images),
     currentField |-> FieldNameOrUnknown(templateSelection)]

\* the state of one call; fileIndex counts from 0 as in the code
NewFilesRun(fileImages, selections, hasOnProgress) ==
    [fileImages |-> fileImages,
     selections |-> selections,
     hasOnProgress |-> hasOnProgress,
     pc |-> "called",
     fileIndex |-> 0,
     imageIndex |-> 1,
     selectionIndex |-> 1,
     fileResults |-> <<>>,
     allResults |-> <<>>,
     progressCalls |-> <<>>,
     recognitions |-> 0]

\* the catch branch of the loop body
FilesCatchBranch(r) ==
    LET file == r.fileImages[r.fileIndex + 1]
        image == file.images[r.imageIndex]
        templateSelection == r.selections[r.selectionIndex]
    IN  [r EXCEPT !.fileResults =
                      Push(@, [FailureResult(image, templateSelection) EXCEPT
                                  !.id = FileResultId(file.fileName, image, templateSelection)]),
                  !.pc = "delay"]

\* the rest of the try branch once extractTextFromSelection has returned
FilesTryBranch(r, outcome) ==
    LET file == r.fileImages[r.fileIndex + 1]
        image == file.images[r.imageIndex]
        templateSelection == r.selections[r.selectionIndex]
    IN  [r EXCEPT !.fileResults =
                      Push(@, [SuccessResult(image, templateSelection, outcome) EXCEPT
                                  !.id = FileResultId(file.fileName, image, templateSelection)]),
                  !.pc = "delay"]

\* one loop body up to its first await
FilesIterationHead(r, callbackThrows) ==
    LET file == r.fileImages[r.fileIndex + 1]
        reported ==
            IF r.hasOnProgress
            THEN [r EXCEPT !.progressCalls =
                              Append(@, FileProgressCall(r.fileIndex, r.fileImages,
                                                         file.images[r.imageIndex],
                                                         r.selections[r.selectionIndex]))]
            ELSE r
    IN  IF r.hasOnProgress /\ callbackThrows
        THEN FilesCatchBranch(reported)
        ELSE [reported EXCEPT !.pc = "recognize", !.recognitions = @ + 1]

\* run the three loops until the next await: a file whose loops are over is
\* pushed to allResults, and the call returns after the last file
RECURSIVE FilesContinue(_, _)
FilesContinue(r, callbackThrows) ==
    IF r.fileIndex >= Len(r.fileImages) THEN [r EXCEPT !.pc = "returned"]
    ELSE LET file == r.fileImages[r.fileIndex + 1]
         IN  IF r.imageIndex <= Len(file.images) /\ r.selectionIndex <= Len(r.selections)
             THEN FilesIterationHead(r, callbackThrows)
             ELSE FilesContinue(
                      [r EXCEPT !.allResults =
                                    Append(@, [fileName |-> file.fileName,
                                               results |-> r.fileResults]),
                                !.fileResults = <<>>,
                                !.fileIndex = @ + 1,
                                !.imageIndex = 1,
                                !.selectionIndex = 1],
                      callbackThrows)

\* the recognition of the current pair settles
FilesSettle(r, outcome) ==
    IF SelectionThrows(outcome) THEN FilesCatchBranch(r) ELSE FilesTryBranch(r, outcome)

\* the next pair of the two inner loops
FilesAdvance(r) ==
    IF r.selectionIndex < Len(r.selections)
    THEN [r EXCEPT !.selectionIndex = @ + 1]
    ELSE [r EXCEPT !.imageIndex = @ + 1, !.selectionIndex = 1]

\* the files handed to the call: the pages of converted documents
FileImagesOf(files) ==
    [k \in 1..Len(files) |->
        [fileName |-> files[k].name, images |-> ConvertPDFToImages(files[k], k - 1)]]

RECURSIVE PairsOf(_, _)
PairsOf(fileImages, selections) ==
    IF fileImages = <<>> THEN 0
    ELSE Len(Head(fileImages).images) * Len(selections) + PairsOf(Tail(fileImages), selections)

FilesInit ==
    /\ \E files \in SeqsUpTo({ file \in UploadableFiles : file.readable }, MaxFiles),
          selections \in SeqsUpTo(TemplateSelections, MaxSelections),
          hasOnProgress \in BOOLEAN :
          /\ PairsOf(FileImagesOf(files), selections) <= MaxOperations
          /\ run = NewFilesRun(FileImagesOf(files), selections, hasOnProgress)
    /\ runNo = 1
    /\ prevRun = NoPreviousRun
    /\ app = InitialApp
    /\ conversions = <<>>
    /\ conversionAlerts = 0
    /\ extractions = <<>>
    /\ imports = <<>>
    /\ lastRun = None
    /\ clicks = 0
    /\ OtherInit

\* extractTextFromMultipleFiles(fileImages, template, onProgress) is called
CallExtractFromFiles ==
    /\ run.pc = "called"
    /\ \E callbackThrows \in BOOLEAN : run' = FilesContinue(run, callbackThrows)
    /\ UNCHANGED <<runNo, prevRun>>
    /\ UNCHANGED <<appVars, otherVars>>

\* the recognition of the current pair settles
FilesRecognitionSettles ==
    /\ run.pc = "recognize"
    /\ \E outcome \in AppRecognizerOutcomes : run' = FilesSettle(run, outcome)
    /\ UNCHANGED <<runNo, prevRun>>
    /\ UNCHANGED <<appVars, otherVars>>

\* the 10 ms delay elapses
FilesDelayElapses ==
    /\ run.pc = "delay"
    /\ \E callbackThrows \in BOOLEAN :
          run' = FilesContinue(FilesAdvance(run), callbackThrows)
    /\ UNCHANGED <<runNo, prevRun>>
    /\ UNCHANGED <<appVars, otherVars>>

FilesNext == CallExtractFromFiles \/ FilesRecognitionSettles \/ FilesDelayElapses

SpecMultipleFiles == FilesInit /\ [][FilesNext]_vars

\* ===================================================== ExtractedTextDisplay
\* The results review: a batch extraction of App, then the edits of its
\* results.  handleDataChange of App is setExtractedData.

\* what the user types into the Input of the row being edited
TypedTexts == { <<"X">> }

\* startEdit(item)
StartEdit(v, item, k) == [editingId |-> Some(item.id), editValue |-> item.text, row |-> k]

\* extractedData.map(item => item.id === editingId ? {...item, text: editValue} : item)
SaveEdit(extractedData, v) ==
    [k \in 1..Len(extractedData) |->
        IF extractedData[k].id = v.editingId[1]
        THEN [extractedData[k] EXCEPT !.text = v.editValue]
        ELSE extractedData[k]]

\* the wizard at its batch preview: files converted, a template created and used
AppAtBatchPreview(files, template) ==
    LET converted == ConversionSucceeded([InitialApp EXCEPT !.uploadedFiles = files,
                                                            !.currentStep = "convert"],
                                         NewConversion(files))
    IN  TemplateSelected(TemplateCreated(converted, template), template)

ReviewInit ==
    /\ \E files \in SeqsUpTo({ file \in UploadableFiles : file.readable }, MaxFiles),
          template \in SavableTemplates :
          /\ Len(files) > 0
          /\ app = AppAtBatchPreview(files, template)
          /\ TotalOperations(app.allPdfImages, template.selections) <= MaxAppOperations
    /\ conversions = <<>>
    /\ conversionAlerts = 0
    /\ extractions = <<>>
    /\ imports = <<>>
    /\ lastRun = None
    /\ clicks = 0
    /\ run = NewRun(<<>>, <<>>, FALSE)
    /\ runNo = 1
    /\ prevRun = NoPreviousRun
    /\ OtherInit

\* the rows are shown once currentStep is 'results'
ReviewShown == app.currentStep = "results"

\* the edit button of a row that is not being edited
StartEditClicked ==
    /\ ReviewShown
    /\ \E k \in 1..Len(app.extractedData) :
          /\ review.editingId # Some(app.extractedData[k].id)
          /\ review' = StartEdit(review, app.extractedData[k], k)
    /\ UNCHANGED <<appVars, runVars, editorVars, fileVars, csvVars>>

\* onChange of the Input
SetEditValue ==
    /\ ReviewShown
    /\ review.editingId # None
    /\ \E value \in TypedTexts : review' = [review EXCEPT !.editValue = value]
    /\ UNCHANGED <<appVars, runVars, editorVars, fileVars, csvVars>>

\* saveEdit from the check button or the Enter key
SaveEditClicked ==
    /\ ReviewShown
    /\ review.editingId # None
    /\ app' = [app EXCEPT !.extractedData = SaveEdit(@, review)]
    /\ review' = [review EXCEPT !.editingId = None, !.editValue = <<>>]
    /\ UNCHANGED <<conversions, conversionAlerts, extractions, imports, lastRun, clicks>>
    /\ UNCHANGED <<runVars, editorVars, fileVars, csvVars>>

\* cancelEdit
CancelEdit ==
    /\ ReviewShown
    /\ review.editingId # None
    /\ review' = [review EXCEPT !.editingId = None, !.editValue = <<>>]
    /\ UNCHANGED <<appVars, runVars, editorVars, fileVars, csvVars>>

ReviewNext ==
    \/ HandleBatchExtraction
    \/ ExtractionRecognitionSettles
    \/ ExtractionDelayElapses
    \/ StartEditClicked
    \/ SetEditValue
    \/ SaveEditClicked
    \/ CancelEdit

SpecReview == ReviewInit /\ [][ReviewNext]_vars

\* ------------------------------------------------- from the batch preview
\* The wizard as ReviewInit leaves it, and what the user can do from there
\* while extractions are pending.
BatchNext ==
    \/ HandleBatchExtraction
    \/ ExtractionRecognitionSettles
    \/ ExtractionDelayElapses
    \/ GoBack
    \/ ResetApp
    \/ HandleTemplateSelect

SpecBatch == ReviewInit /\ [][BatchNext]_vars

\* ================================================================= claims
Finished(r) == r.pc \in {"returned", "threw"}

\* the pair visited k-th when pages are the outer loop and regions the inner
PageIndexOf(k, r) == ((k - 1) \div Len(r.selections)) + 1

RegionIndexOf(k, r) == ((k - 1) % Len(r.selections)) + 1

\* the operations whose recognition has settled, in the order they settled;
\* r.outcomes[n] is what the recognizer gave back for SettledOps(r)[n]
SettledOps(r) ==
    LET settled == SelectSeq(r.events, LAMBDA e : e.type = "settled")
    IN  [n \in 1..Len(settled) |-> settled[n].op]

Attempted(r, k) == \E n \in 1..Len(SettledOps(r)) : SettledOps(r)[n] = k

OutcomeOf(r, k) ==
    r.outcomes[CHOOSE n \in 1..Len(SettledOps(r)) : SettledOps(r)[n] = k]

\* t is s without its leading and trailing white space
IsTrimOf(t, s) ==
    /\ \E i, j \in 0..Len(s) :
          /\ t = SubSeq(s, i + 1, Len(s) - j)
          /\ \A n \in 1..i : s[n] \in WhiteSpace
          /\ \A n \in (Len(s) - j + 1)..Len(s) : s[n] \in WhiteSpace
    /\ t # <<>> => (t[1] \notin WhiteSpace /\ t[Len(t)] \notin WhiteSpace)

\* C1 - cardinality: for a non-empty page list and a non-empty template, and
\* whatever succeeds or fails, the call returns exactly |pages| x |selections|
\* results.
C1_Cardinality ==
    (Finished(run) /\ Len(run.images) > 0 /\ Len(run.selections) > 0)
        => /\ run.pc = "returned"
           /\ Len(run.results) = Len(run.images) * Len(run.selections)

\* two pages, two regions, every recognition failed
C1_Witness ==
    /\ run.pc = "returned"
    /\ Len(run.images) = 2 /\ Len(run.selections) = 2
    /\ Len(run.outcomes) = 4
    /\ \A n \in 1..4 : run.outcomes[n] = Thrown

\* C2 - ordering: the result at position k (1-based) is the result of page
\* ((k-1) div |regions|) + 1 and region ((k-1) mod |regions|) + 1, whichever
\* recognitions failed, and at return every pair has its position.
C2_Order ==
    /\ \A k \in 1..Len(run.results) :
          LET image == run.images[PageIndexOf(k, run)]
              region == run.selections[RegionIndexOf(k, run)]
              result == run.results[k]
          IN  /\ result.pageNumber = image.pageNumber
              /\ result.selectionArea.pageNumber = image.pageNumber
              /\ \A f \in DOMAIN region : result.selectionArea[f] = region[f]
    /\ Finished(run) => Len(run.results) = Len(run.images) * Len(run.selections)

\* pages 2 then 1, two different regions, a failure followed by successes
C2_Witness ==
    /\ run.pc = "returned"
    /\ Len(run.images) = 2 /\ Len(run.selections) = 2
    /\ run.images[1].pageNumber = 2 /\ run.images[2].pageNumber = 1
    /\ run.selections[1] # run.selections[2]
    /\ IsEmptyResult(run.results[1])
    /\ ~IsEmptyResult(run.results[2])
    /\ IsEmptyResult(run.results[3])

\* C3 - partial-failure isolation: when the recognition throws for exactly one
\* pair among N and returns a text and a confidence for every other pair, the
\* call returns normally with N results; the failing pair has text "" and
\* confidence 0, every other pair has the trimmed text and the confidence the
\* recognizer returned for it.
C3_PartialFailureIsolation ==
    LET N == Len(run.images) * Len(run.selections)
    IN  ( /\ Finished(run)
          /\ N > 0
          /\ \A k \in 1..run.currentOperation : Attempted(run, k)
          /\ Cardinality({ k \in 1..run.currentOperation : OutcomeOf(run, k).throws }) = 1
          /\ \A k \in 1..run.currentOperation :
                ~OutcomeOf(run, k).throws => OutcomeOf(run, k).hasText )
        => /\ run.pc = "returned"
           /\ Len(run.results) = N
           /\ \A k \in 1..N :
                 IF OutcomeOf(run, k).throws
                 THEN run.results[k].text = <<>> /\ run.results[k].confidence = 0
                 ELSE /\ IsTrimOf(run.results[k].text, OutcomeOf(run, k).text)
                      /\ run.results[k].confidence = OutcomeOf(run, k).confidence

\* four pairs, the third one fails, the others are recognized as " A " / 87
C3_Witness ==
    /\ run.pc = "returned"
    /\ Len(run.results) = 4
    /\ Len(run.outcomes) = 4
    /\ run.outcomes[3] = Thrown
    /\ \A n \in {1, 2, 4} : run.outcomes[n] = Recognized(<<" ", "A", " ">>, 87)
    /\ run.results[3].text = <<>>
    /\ run.results[4].text = <<"A">>

\* C5 - sequential recognition: at most one recognition is in flight, and the
\* recognition of an operation starts only from the call's entry or the end
\* of a delay, when nothing is in flight and every earlier operation has its
\* result.
C5_OneRecognitionAtATime ==
    /\ [](Cardinality(run.inFlight) <= 1)
    /\ [][ \A k \in run'.inFlight \ run.inFlight :
              /\ run.inFlight = {}
              /\ run.pc \in {"called", "delay"}
              /\ Len(run.results) = k - 1 ]_vars

\* the second recognition is in flight, the first has its result
C5_Witness ==
    /\ run.inFlight = {2}
    /\ run.pc = "recognize"
    /\ Len(run.results) = 1

\* C6 - progress reports: with an onProgress callback, it has been called once
\* for each operation begun, the k-th call with current = k, total = |pages| x
\* |regions|, the page number and the field name of the k-th pair, before the
\* recognition of that pair starts; at return it has been called total times.
C6_ProgressReports ==
    LET N == Len(run.images) * Len(run.selections)
    IN  run.hasOnProgress =>
           /\ Len(run.progressCalls) = run.currentOperation
           /\ Len(run.progressCalls) <= N
           /\ \A k \in 1..Len(run.progressCalls) :
                 LET region == run.selections[RegionIndexOf(k, run)]
                 IN  run.progressCalls[k] =
                        [current |-> k,
                         total |-> N,
                         currentPage |-> run.images[PageIndexOf(k, run)].pageNumber,
                         currentField |-> IF region.fieldName = ""
                                          THEN "Unknown Field" ELSE region.fieldName]
           /\ \A k \in 1..run.currentOperation :
                 Cardinality({ n \in 1..Len(run.events) :
                                 run.events[n] = Event("onProgress", k) }) = 1
           /\ \A m \in 1..Len(run.events) :
                 run.events[m].type = "recognize" =>
                    \E n \in 1..(m - 1) : run.events[n] = Event("onProgress", run.events[m].op)
           /\ Finished(run) => Len(run.progressCalls) = N

\* four reports made, the last one for the unnamed region of page 1
C6_Witness ==
    /\ run.pc = "returned"
    /\ run.hasOnProgress
    /\ Len(run.progressCalls) = 4
    /\ run.progressCalls[4] =
          [current |-> 4, total |-> 4, currentPage |-> 1, currentField |-> "Unknown Field"]
    /\ run.progressCalls[1].currentField = "Tag"

\* C4 - unique ids: in the result list of a batch extraction of the wizard
\* (handleBatchExtraction over the pages of all uploaded files), where no two
\* pages have the same file name and page number and no two regions the same
\* id, no two results have the same id.
C4_UniqueResultIds ==
    (/\ lastRun # None
     /\ \A m, n \in 1..Len(lastRun[1].images) :
           m # n => \/ lastRun[1].images[m].fileName # lastRun[1].images[n].fileName
                    \/ lastRun[1].images[m].pageNumber # lastRun[1].images[n].pageNumber
     /\ \A m, n \in 1..Len(lastRun[1].selections) :
           m # n => lastRun[1].selections[m].id # lastRun[1].selections[n].id)
        => \A j, k \in 1..Len(lastRun[1].ids) :
              j # k => lastRun[1].ids[j] # lastRun[1].ids[k]

\* C7 - EmptyTemplate: a call the wizard makes with a template without regions
\* over a non-empty page list fails with an EmptyTemplate error and starts no
\* recognition, however the template was selected (saved or imported).
C7_EmptyTemplateRejected ==
    (/\ lastRun # None
     /\ Len(lastRun[1].selections) = 0
     /\ Len(lastRun[1].images) > 0)
        => /\ lastRun[1].pc = "threw"
           /\ lastRun[1].error = "EmptyTemplate"
           /\ lastRun[1].recognitions = 0

\* C8 - NoPages: a call with an empty page list and a non-empty template fails
\* with a NoPages error and starts no recognition.
C8_NoPagesRejected ==
    (Len(run.images) = 0 /\ Len(run.selections) > 0 /\ run.pc # "called")
        => /\ run.pc = "threw"
           /\ run.error = "NoPages"
           /\ \A n \in 1..Len(run.events) : run.events[n].type # "recognize"

\* a response without text, or with a confidence outside 0..100
Malformed(outcome) ==
    ~outcome.throws /\ (~outcome.hasText \/ outcome.confidence \notin 0..100)

\* C9 - malformed responses: the result of a pair whose response was malformed
\* has text "" and confidence 0, and every result has a confidence in 0..100.
C9_MalformedIsFailure ==
    /\ \A n \in 1..Len(run.outcomes) :
          (Malformed(run.outcomes[n]) /\ SettledOps(run)[n] <= Len(run.results))
             => IsEmptyResult(run.results[SettledOps(run)[n]])
    /\ \A k \in 1..Len(run.results) : run.results[k].confidence \in 0..100

\* C10 - determinism: a second call on the same pages and template returns a
\* sequence of the same length with the same id, page number and field name at
\* every position as the call before, whatever the recognizer did in either.
C10_Determinism ==
    (runNo > 1 /\ Finished(run)) =>
        /\ Len(run.results) = Len(prevRun.keys)
        /\ \A k \in 1..Len(run.results) :
              /\ run.results[k].id = prevRun.keys[k].id
              /\ run.results[k].pageNumber = prevRun.keys[k].pageNumber
              /\ run.results[k].fieldName = prevRun.keys[k].fieldName

\* the call before had no empty result, this one has nothing else
C10_Witness ==
    /\ runNo = 2
    /\ run.pc = "returned"
    /\ Len(run.results) = 4
    /\ ~prevRun.anyEmpty
    /\ EmptyResults(run.results) = 1..4
    /\ \E k \in 1..4 : run.results[k].fieldName = "Unknown Field"

\* ---------------------------------------------------------------- C11..C18
\* the regions the editor holds
EditorSelections == arrays[editor.selections]

\* this step is handler `name` running, and its guard let it through
Handles(name) == handled'.name = name /\ clicks' # clicks

\* the extent of the latest drag, from the mouse positions
DragWidth == handled.drag[1].to.x - handled.drag[1].from.x

DragHeight == handled.drag[1].to.y - handled.drag[1].from.y

\* C11: finishing a drag adds a region to the list if and only if both
\* |width| > 10 and |height| > 10; the list is otherwise left as it was, and
\* the drawing state is cleared in both cases.
C11_DragCommit ==
    [][(Handles("handleMouseUp") /\ Drawing(editor)) =>
          LET before == arrays[editor.selections]
              after == arrays'[editor'.selections]
          IN  /\ (DragWidth > 10 \/ DragWidth < -10) /\ (DragHeight > 10 \/ DragHeight < -10)
                    => /\ Len(after) = Len(before) + 1
                       /\ SubSeq(after, 1, Len(before)) = before
              /\ ~((DragWidth > 10 \/ DragWidth < -10) /\ (DragHeight > 10 \/ DragHeight < -10))
                    => after = before
              /\ ~editor'.isDrawing
              /\ editor'.currentSelection = None]_vars

\* a drag of exactly 10 by 10 was finished and discarded next to a region
\* that an earlier drag had added
C11_Witness ==
    /\ handled.name = "handleMouseUp"
    /\ ~editor.isDrawing
    /\ handled.drag # None
    /\ DragWidth = 10 /\ DragHeight = 10
    /\ Len(EditorSelections) = 1

\* C12: an accepted region is stored normalised: x and y are the smaller of
\* the two corner coordinates, width and height the distances between them,
\* so its width and height are positive.
C12_Normalized ==
    [][(Handles("handleMouseUp") /\ Drawing(editor)
            /\ Len(arrays'[editor'.selections]) > Len(arrays[editor.selections])) =>
          LET after == arrays'[editor'.selections]
              region == after[Len(after)]
              from == handled.drag[1].from
              to == handled.drag[1].to
          IN  /\ region.x = (IF from.x <= to.x THEN from.x ELSE to.x)
              /\ region.y = (IF from.y <= to.y THEN from.y ELSE to.y)
              /\ region.width = (IF from.x <= to.x THEN to.x - from.x ELSE from.x - to.x)
              /\ region.height = (IF from.y <= to.y THEN to.y - from.y ELSE from.y - to.y)
              /\ region.width > 0
              /\ region.height > 0]_vars

\* a drag from the lower right to the upper left was accepted
C12_Witness ==
    /\ handled.name = "handleMouseUp"
    /\ handled.drag # None
    /\ DragWidth < -10 /\ DragHeight < -10
    /\ Len(EditorSelections) >= 1
    /\ EditorSelections[Len(EditorSelections)].x = handled.drag[1].to.x
    /\ EditorSelections[Len(EditorSelections)].width = -DragWidth

\* C15: after any sequence of draw, remove and clear, no two regions of the
\* editor's list have the same id.
C15_UniqueSelectionIds ==
    \A i, j \in 1..Len(EditorSelections) :
        i # j => EditorSelections[i].id # EditorSelections[j].id

\* C16: adding a region appends it at the end and leaves the regions already
\* there as they were; no array produced earlier is modified, and a saved
\* template keeps the regions it was saved with through every later draw,
\* remove, clear and save.
C16_AppendAndFrame ==
    [][LET before == arrays[editor.selections]
           after == arrays'[editor'.selections]
       IN  /\ \A ref \in DOMAIN arrays \cap DOMAIN arrays' : arrays'[ref] = arrays[ref]
           /\ \A k \in 1..Len(app.savedTemplates) :
                  /\ k <= Len(app'.savedTemplates)
                  /\ app'.savedTemplates[k] = app.savedTemplates[k]
                  /\ app.savedTemplates[k].selections \in DOMAIN arrays'
                  /\ arrays'[app.savedTemplates[k].selections]
                        = arrays[app.savedTemplates[k].selections]
           /\ (Handles("handleMouseUp") /\ Len(after) > Len(before))
                  => /\ Len(after) = Len(before) + 1
                     /\ \A k \in 1..Len(before) : after[k] = before[k]
           /\ Len(app'.savedTemplates) > Len(app.savedTemplates)
                  => arrays'[app'.savedTemplates[Len(app'.savedTemplates)].selections]
                        = before]_vars

\* a region was added to the editor's list after a template had been saved
C16_Witness ==
    /\ handled.name = "handleMouseUp"
    /\ Len(app.savedTemplates) >= 1
    /\ Len(arrays[app.savedTemplates[1].selections]) = 1
    /\ Len(EditorSelections) = 1
    /\ EditorSelections[1] # arrays[app.savedTemplates[1].selections][1]

\* C17: removeSelection(id) removes exactly the one region with that id and
\* keeps the others in order; with no such region the list is unchanged.
C17_RemoveExactlyOne ==
    [][Handles("removeSelection") =>
          LET before == arrays[editor.selections]
              after == arrays'[editor'.selections]
              at == { k \in 1..Len(before) : before[k].id = handled'.id }
          IN  IF at = {}
              THEN after = before
              ELSE \E k \in at :
                      after = SubSeq(before, 1, k - 1) \o SubSeq(before, k + 1, Len(before))]_vars

\* a name is blank when all its characters are white space
Blank(text) == \A k \in 1..Len(text) : text[k] \in WhiteSpace

\* C18: every saved template has a name that is not blank and at least one
\* region; handleSaveTemplate with a blank name or no region creates no
\* template and leaves the form as it is.
C18_SavedTemplatesValid ==
    /\ [](\A k \in 1..Len(app.savedTemplates) :
              /\ ~Blank(app.savedTemplates[k].name)
              /\ Head(app.savedTemplates[k].name) \notin WhiteSpace
              /\ app.savedTemplates[k].name[Len(app.savedTemplates[k].name)] \notin WhiteSpace
              /\ Len(arrays[app.savedTemplates[k].selections]) >= 1)
    /\ [][(Handles("handleSaveTemplate")
              /\ (Blank(editor.templateName) \/ Len(arrays[editor.selections]) = 0))
            => /\ app' = app
               /\ editor' = editor
               /\ arrays' = arrays]_vars

\* a template was saved under the name typed with blanks around it
C18_Witness ==
    /\ handled.name = "handleSaveTemplate"
    /\ Len(app.savedTemplates) = 1
    /\ app.savedTemplates[1].name = <<"T">>
    /\ Len(arrays[app.savedTemplates[1].selections]) = 1
    /\ editor.templateName = <<>>

\* a template as the editor makes them: it has a list of regions, and every
\* region is larger than 10 in both directions
WellFormedTemplate(template) ==
    /\ "selections" \in DOMAIN template
    /\ \A k \in 1..Len(template.selections) :
          template.selections[k].width > 10 /\ template.selections[k].height > 10

\* C13: a template file without the list of regions, or with a region of
\* width <= 10 or height <= 10, is refused: it does not become the selected
\* template and the wizard does not go on to the batch preview.
C13_MalformedImportRefused ==
    app.selectedTemplate # None => WellFormedTemplate(app.selectedTemplate[1])

\* C14: importing the text that Export wrote for a template gives a template
\* equal to it field for field, createdAt and updatedAt included, with the
\* same kind of value in each field.
C14_ExportImportRoundTrip ==
    \A k \in 1..Len(app.savedTemplates) :
        (app.selectedTemplate # None
            /\ app.selectedTemplate[1].id = app.savedTemplates[k].id)
        => app.selectedTemplate[1] = app.savedTemplates[k]

\* ---------------------------------------------------------------- C19, C20
\* the cell is the decimal form of an integer nearest to the number of quarters
NearestInteger(cell, quarters) ==
    \E n \in (quarters \div 4)..(quarters \div 4 + 1) :
        /\ cell = <<ToString(n)>>
        /\ 4 * n - quarters <= 2
        /\ quarters - 4 * n <= 2

\* the rows joined by commas and line feeds
JoinedRows(rows) ==
    Join([k \in 1..Len(rows) |-> Join(rows[k], ",")], "\n")

\* C19: the full export of a non-empty list is the header row Field Name,
\* Extracted Text, Page Number, Confidence Score (%), Position X, Position Y,
\* Width, Height, Selection Type, then one row of 9 cells per result in input
\* order, with confidence, x, y, width and height rounded to the nearest
\* integer.
C19_FullExport ==
    (csvFile # None /\ csvFile[1].export = "exportToCSV") =>
        LET rows == csvFile[1].rows
        IN  /\ Len(rows) = Len(csvInput) + 1
            /\ rows[1] = << <<"Field Name">>, <<"Extracted Text">>, <<"Page Number">>,
                            <<"Confidence Score (%)">>, <<"Position X">>,
                            <<"Position Y">>, <<"Width">>, <<"Height">>,
                            <<"Selection Type">> >>
            /\ \A k \in 1..Len(csvInput) :
                  LET item == csvInput[k]
                      row == rows[k + 1]
                  IN  /\ Len(row) = 9
                      /\ row[1] = escapeCSVValue(item.fieldName)
                      /\ row[2] = escapeCSVValue(item.text)
                      /\ row[3] = <<ToString(item.pageNumber)>>
                      /\ NearestInteger(row[4], item.confidence)
                      /\ NearestInteger(row[5], item.selectionArea.x)
                      /\ NearestInteger(row[6], item.selectionArea.y)
                      /\ NearestInteger(row[7], item.selectionArea.width)
                      /\ NearestInteger(row[8], item.selectionArea.height)
                      /\ row[9] = <<item.selectionArea.type>>
            /\ csvFile[1].content = JoinedRows(rows)

\* three results were exported, among them numbers with fractional parts of
\* a quarter, a half and three quarters
C19_Witness ==
    /\ csvFile # None
    /\ csvFile[1].export = "exportToCSV"
    /\ Len(csvInput) = 3
    /\ csvInput[1].confidence = 350
    /\ csvFile[1].rows[2][4] = <<"88">>
    /\ csvInput[2].selectionArea.width = 403
    /\ csvFile[1].rows[3][7] = <<"101">>
    /\ csvInput[3].confidence = 0

\* the indices of the results ordered by page number and, within a page, by
\* position in the input
StableByPage(data) ==
    CHOOSE order \in [1..Len(data) -> 1..Len(data)] :
        \A i, j \in 1..Len(data) :
            i < j => \/ data[order[i]].pageNumber < data[order[j]].pageNumber
                     \/ /\ data[order[i]].pageNumber = data[order[j]].pageNumber
                        /\ order[i] < order[j]

\* C20: the grouped export puts the results in buckets of ascending page
\* number, each bucket in input order; the page label is on the first row of
\* a bucket and empty on its other rows; one blank row stands between two
\* consecutive buckets and none after the last.
C20_GroupedExport ==
    (csvFile # None /\ csvFile[1].export = "exportGroupedByPage") =>
        LET rows == Tail(csvFile[1].rows)
            order == StableByPage(csvInput)
            page(i) == csvInput[order[i]].pageNumber
            opens(i) == i = 1 \/ page(i) # page(i - 1)
            \* the row of the i-th result in that order: one blank row
            \* precedes each bucket but the first
            at(i) == i + Cardinality({ j \in 2..i : opens(j) })
            blank == << <<>>, <<>>, <<>>, <<>> >>
        IN  /\ Len(rows) = Len(csvInput) + Cardinality({ j \in 2..Len(csvInput) : opens(j) })
            /\ Cardinality({ j \in 2..Len(csvInput) : opens(j) })
                  = Cardinality({ csvInput[k].pageNumber : k \in 1..Len(csvInput) }) - 1
            /\ \A i \in 1..Len(csvInput) :
                  /\ rows[at(i)][1] = (IF opens(i)
                                       THEN <<"Page " \o ToString(page(i))>> ELSE <<>>)
                  /\ rows[at(i)][2] = escapeCSVValue(csvInput[order[i]].fieldName)
                  /\ rows[at(i)][3] = escapeCSVValue(csvInput[order[i]].text)
                  /\ NearestInteger(rows[at(i)][4], csvInput[order[i]].confidence)
                  /\ Len(rows[at(i)]) = 4
            /\ \A n \in 1..Len(rows) :
                  (\A i \in 1..Len(csvInput) : at(i) # n) => rows[n] = blank
            /\ rows[Len(rows)] # blank

\* results of pages 2, 1, 2 in that order were exported by page
C20_Witness ==
    /\ csvFile # None
    /\ csvFile[1].export = "exportGroupedByPage"
    /\ Len(csvInput) = 3
    /\ csvInput[1].pageNumber = 2
    /\ csvInput[2].pageNumber = 1
    /\ csvInput[3].pageNumber = 2
    /\ csvInput[1] # csvInput[3]
    /\ Len(csvFile[1].rows) = 5

\* ---------------------------------------------------------------- C21
\* the cell is the value between double quotes with each of its double
\* quotes written twice
QuotedForm(cell, value) ==
    LET quotes(k) == Cardinality({ j \in 1..k : value[j] = "\"" })
        at(k) == 1 + k + quotes(k - 1)
    IN  /\ Len(cell) = Len(value) + quotes(Len(value)) + 2
        /\ cell[1] = "\""
        /\ cell[Len(cell)] = "\""
        /\ \A k \in 1..Len(value) :
              /\ cell[at(k)] = value[k]
              /\ value[k] = "\"" => cell[at(k) + 1] = "\""

\* the value has a character that asks for quoting
HasSpecial(value) ==
    \E k \in 1..Len(value) : value[k] \in {",", "\"", "\n", "\r"}

EscapedForm(cell, value) ==
    IF Len(value) = 0 THEN Len(cell) = 2 /\ cell[1] = "\"" /\ cell[2] = "\""
    ELSE IF HasSpecial(value) THEN QuotedForm(cell, value)
         ELSE cell = value

\* C21: a field-name or text cell is "" for an empty value, the value in
\* double quotes with its double quotes doubled when it contains a comma, a
\* double quote, a line feed or a carriage return, and the value itself
\* otherwise.
C21_Escaping ==
    (csvFile # None /\ csvFile[1].export = "exportToCSV") =>
        \A k \in 1..Len(csvInput) :
            /\ EscapedForm(csvFile[1].rows[k + 1][1], csvInput[k].fieldName)
            /\ EscapedForm(csvFile[1].rows[k + 1][2], csvInput[k].text)

\* an export with an empty text, a plain name, and values with a comma, a
\* double quote, a line feed and a carriage return
C21_Witness ==
    /\ csvFile # None
    /\ csvFile[1].export = "exportToCSV"
    /\ Len(csvInput) = 3
    /\ csvInput[1].text = <<>>
    /\ csvInput[2].text = <<"x", "\"", "y", "\n", "z">>
    /\ csvFile[1].rows[3][2] = <<"\"", "x", "\"", "\"", "y", "\n", "z", "\"">>
    /\ csvInput[2].fieldName = <<"a", ",", "b">>
    /\ csvInput[3].text = <<"A", "\r", "B">>
    /\ csvInput[3].fieldName = <<"Tag">>
    /\ csvFile[1].rows[4][1] = <<"Tag">>

\* ---------------------------------------------------------------- C22
\* C22: every progress report of extractTextFromMultipleFiles carries the
\* 1-based index of the file being processed, the number of files, the page
\* number of the page being processed, and the number of pages of that file.
C22_FileProgressReports ==
    \A k \in 1..Len(run.progressCalls) :
        LET call == run.progressCalls[k]
        IN  /\ call.currentFile \in 1..Len(run.fileImages)
            /\ call.totalFiles = Len(run.fileImages)
            /\ \E n \in 1..Len(run.fileImages[call.currentFile].images) :
                  run.fileImages[call.currentFile].images[n].pageNumber = call.currentPage
            /\ call.totalPages = Len(run.fileImages[call.currentFile].images)

\* ---------------------------------------------------------------- C23
\* C23: a run of extractTextFromTemplate leaves the page list, every page,
\* the template's regions and every field of every region as they were; the
\* page number is attached to the copy of the region kept in the result only.
C23_InputsUnchanged ==
    /\ [](\A k \in 1..Len(run.selections) : "pageNumber" \notin DOMAIN run.selections[k])
    /\ [](\A n \in 1..Len(run.results) :
              \E i \in 1..Len(run.images), k \in 1..Len(run.selections) :
                  /\ run.results[n].selectionArea.pageNumber = run.images[i].pageNumber
                  /\ \A f \in DOMAIN run.selections[k] :
                        run.results[n].selectionArea[f] = run.selections[k][f]
                  /\ DOMAIN run.results[n].selectionArea
                        = DOMAIN run.selections[k] \cup {"pageNumber"})
    /\ [][run'.images = run.images /\ run'.selections = run.selections]_vars

\* a run over two pages returned with a result of a recognition that
\* succeeded
C23_Witness ==
    /\ run.pc = "returned"
    /\ Len(run.images) = 2
    /\ Len(run.results) >= 2
    /\ run.results[1].confidence = 87
    /\ run.results[1].selectionArea.pageNumber = run.images[1].pageNumber

\* ---------------------------------------------------------------- C24
\* the number of pages of the files before the k-th
RECURSIVE PagesBefore(_, _)
PagesBefore(files, k) ==
    IF k <= 1 THEN 0 ELSE PagesBefore(files, k - 1) + files[k - 1].numPages

\* in this step the last file of conversion n resolves
CompletesConversion(n) ==
    /\ n \in 1..Len(conversions)
    /\ Len(conversions') = Len(conversions) - 1
    /\ Len(conversions[n].resolved) = Len(conversions[n].files) - 1
    /\ \A k \in 1..Len(conversions[n].files) : conversions[n].files[k].readable
    /\ conversions' = SubSeq(conversions, 1, n - 1)
                         \o SubSeq(conversions, n + 1, Len(conversions))

\* C24: after a successful conversion of the files f0..fk, allPdfImages is
\* the pages of f0, then those of f1, and so on, each file's pages numbered
\* 1..n in ascending order and carrying the file's name and index, whatever
\* the order in which the per-file conversions completed; templateImage is
\* the first page of f0.
C24_ConversionOrder ==
    [][\A n \in 1..Len(conversions) :
          CompletesConversion(n) =>
             LET files == conversions[n].files
                 total == PagesBefore(files, Len(files) + 1)
             IN  /\ Len(app'.allPdfImages) = total
                 /\ \A k \in 1..Len(files) :
                       \A p \in 1..files[k].numPages :
                          LET image == app'.allPdfImages[PagesBefore(files, k) + p]
                          IN  /\ image.pageNumber = p
                              /\ image.fileName = files[k].name
                              /\ image.fileIndex = k - 1
                 /\ app'.templateImage = <<app'.allPdfImages[1]>>
                 /\ app'.allPdfImages[1].fileName = files[1].name
                 /\ app'.allPdfImages[1].pageNumber = 1
                 /\ app'.currentStep = "template"
                 /\ ~app'.isProcessing]_vars

\* a.pdf and b.pdf were converted: three pages, those of a.pdf first
C24_Witness ==
    /\ app.currentStep = "template"
    /\ conversions = <<>>
    /\ Len(app.uploadedFiles) = 2
    /\ app.uploadedFiles[1].name = "a.pdf"
    /\ app.uploadedFiles[2].name = "b.pdf"
    /\ Len(app.allPdfImages) = 1 + MaxPageNumber
    /\ app.allPdfImages[2].fileName = "b.pdf"
    /\ app.templateImage = <<app.allPdfImages[1]>>

\* ---------------------------------------------------------------- C25
\* C25: saving an edit changes the text of the row the user started editing
\* and of no other result, and changes no other field of any result; this
\* for the results of any batch extraction, multi-file batches included.
C25_EditFrame ==
    [][(ReviewShown /\ review.editingId # None) =>
          /\ Len(app'.extractedData) = Len(app.extractedData)
          /\ \A k \in 1..Len(app.extractedData) :
                /\ k # review.row => app'.extractedData[k] = app.extractedData[k]
                /\ app'.extractedData[k] =
                      [app.extractedData[k] EXCEPT !.text = app'.extractedData[k].text]]_vars

\* ---------------------------------------------------------------- C26
\* the loop body ran once for the k-th pair: it has its result at position k,
\* and its recognition was started at most once
PairDoneOnce(r, k) ==
    /\ k <= Len(r.results)
    /\ r.results[k].pageNumber = r.images[PageIndexOf(k, r)].pageNumber
    /\ r.results[k].selectionArea.id = r.selections[RegionIndexOf(k, r)].id
    /\ Cardinality({ n \in 1..Len(r.events) : r.events[n] = Event("recognize", k) }) <= 1
    /\ Cardinality({ n \in 1..Len(r.events) : r.events[n] = Event("settled", k) })
          = Cardinality({ n \in 1..Len(r.events) : r.events[n] = Event("recognize", k) })
    /\ ~r.hasOnProgress => Attempted(r, k)

EveryPairOnce(r) ==
    /\ Len(r.results) = Len(r.images) * Len(r.selections)
    /\ r.currentOperation = Len(r.images) * Len(r.selections)
    /\ \A k \in 1..(Len(r.images) * Len(r.selections)) : PairDoneOnce(r, k)

\* C26: when every recognition started eventually succeeds or fails, a call
\* of extractTextFromTemplate that is under way eventually returns, and at
\* its return every (page, region) pair has been taken exactly once: none
\* taken again after a failure, none left out.
C26_Terminates ==
    (run.pc \in {"recognize", "delay"}) ~> (run.pc = "returned" /\ EveryPairOnce(run))

\* a call over four pairs has returned; the recognition of the second failed
C26_Witness ==
    /\ run.pc = "returned"
    /\ EveryPairOnce(run)
    /\ Len(run.results) = 4
    /\ Len(run.outcomes) = 4
    /\ run.outcomes[2] = Thrown
    /\ run.outcomes[3] # Thrown

\* ---------------------------------------------------------------- C27
\* C27: at most one call of extractTextFromTemplate is under way at any time,
\* whatever the user does (Start Extraction, Back, Start Over, selecting a
\* template): no second call starts before the first has finished, no two
\* recognitions are in flight together, and the progress counter shown does
\* not go down during an extraction.
C27_OneExtractionInFlight ==
    /\ [](Len(extractions) <= 1)
    /\ [](Cardinality({ n \in 1..Len(extractions) : extractions[n].inFlight # {} }) <= 1)
    /\ [][(app.isProcessing /\ app'.isProcessing
             /\ app.processingProgress # None /\ app'.processingProgress # None)
          => app'.processingProgress[1].current >= app.processingProgress[1].current]_vars

\* ---------------------------------------------------------------- C28
\* C28: after resetApp, the end of a conversion or of an extraction that was
\* started before it leaves the reset state as it is: as long as the user
\* does nothing (clicks unchanged), currentStep does not become 'template' or
\* 'results' and allPdfImages and extractedData stay empty.
C28_ResetIsFinal ==
    [][(app = InitialApp /\ clicks' = clicks)
          => /\ app'.currentStep \notin {"template", "results"}
             /\ app'.allPdfImages = <<>>
             /\ app'.extractedData = <<>>]_vars

\* ---------------------------------------------------------------- C29
\* in this step conversion n, one of whose files cannot be converted, ends
EndsFailingConversion(n) ==
    /\ n \in 1..Len(conversions)
    /\ \E k \in 1..Len(conversions[n].files) : ~conversions[n].files[k].readable
    /\ conversions' = SubSeq(conversions, 1, n - 1)
                         \o SubSeq(conversions, n + 1, Len(conversions))

\* C29: the conversion of a batch is all or nothing: when the conversion of
\* one of the uploaded files fails, allPdfImages and templateImage keep the
\* values they had, currentStep is not changed (it stays 'convert'), and
\* isProcessing is false once the failure has been handled.
C29_AllOrNothing ==
    [][\A n \in 1..Len(conversions) :
          EndsFailingConversion(n) =>
             /\ app'.allPdfImages = app.allPdfImages
             /\ app'.templateImage = app.templateImage
             /\ app'.currentStep = app.currentStep
             /\ app.currentStep = "convert" => app'.currentStep = "convert"
             /\ ~app'.isProcessing]_vars

\* a.pdf was converted before; then a batch with bad.pdf failed: the alert was
\* shown, the page of a.pdf is still there and the wizard is still at 'convert'
C29_Witness ==
    /\ conversionAlerts = 1
    /\ conversions = <<>>
    /\ app.currentStep = "convert"
    /\ ~app.isProcessing
    /\ \E k \in 1..Len(app.uploadedFiles) : ~app.uploadedFiles[k].readable
    /\ Len(app.allPdfImages) = 1
    /\ app.templateImage = <<app.allPdfImages[1]>>

\* ---------------------------------------------------------------- C30
\* the onProgress call of operation k threw
ProgressThrew(r, k) ==
    \E n \in 1..Len(r.events) : r.events[n] = Event("onProgressThrew", k)

\* C30: what onProgress throws does not leave extractTextFromTemplate.  The
\* pair whose report threw gets, at its own position, a result with text ""
\* and confidence 0, and no recognition is started for it; the pairs after it
\* are still taken, in order, so that the call returns one result per pair.
C30_ProgressThrowAbsorbed ==
    /\ run.pc # "threw"
    /\ \A k \in 1..run.currentOperation :
          ProgressThrew(run, k) =>
             /\ k <= Len(run.results)
             /\ run.results[k].text = <<>>
             /\ run.results[k].confidence = 0
             /\ run.results[k].pageNumber = run.images[PageIndexOf(k, run)].pageNumber
             /\ run.results[k].selectionArea.id = run.selections[RegionIndexOf(k, run)].id
             /\ \A n \in 1..Len(run.events) :
                   run.events[n].op = k => run.events[n].type \in {"onProgress", "onProgressThrew"}
    /\ \A m, n \in 1..Len(run.events) : m < n => run.events[m].op <= run.events[n].op
    /\ run.pc = "returned" =>
          /\ Len(run.results) = Len(run.images) * Len(run.selections)
          /\ \A k \in 1..Len(run.results) :
                /\ run.results[k].pageNumber = run.images[PageIndexOf(k, run)].pageNumber
                /\ run.results[k].selectionArea.id
                      = run.selections[RegionIndexOf(k, run)].id

\* four pairs: the report of the second threw, the third and the fourth were
\* recognized, and the call returned
C30_Witness ==
    /\ run.pc = "returned"
    /\ Len(run.results) = 4
    /\ ProgressThrew(run, 2)
    /\ ~ProgressThrew(run, 3)
    /\ run.results[2].text = <<>>
    /\ run.results[3].text # <<>>
    /\ run.results[4].text # <<>>
    /\ Len(run.outcomes) = 3

====
